---- MODULE Spec2Model ----
(***************************************************************************)
(* NotificationScheduler of src/main.py (lines 645-888) as a state machine. *)
(*                                                                         *)
(* Caller threads run schedule_notification, cancel_notification and       *)
(* shutdown one statement at a time; every threading.Timer is a thread of  *)
(* its own that runs _trigger_notification; one daemon thread drains the   *)
(* notification queue.  The code takes no lock around the dictionary       *)
(* scheduled_notifications, so every statement boundary is a point where   *)
(* another thread may run.                                                 *)
(***************************************************************************)
EXTENDS Integers, Sequences, FiniteSets, TLC

\* ---------------------------------------------------------------- bounds
MaxTime == 1        \* the clock runs over 0..MaxTime
MaxTimeLong == 2    \* the same, in the longer single-caller behaviours
MaxOps == 2         \* calls of the public operations in one behaviour, one caller
MaxOpsLong == 3     \* the same, in the longer single-caller behaviours
MaxOpsConc == 3     \* the same, two concurrent callers
MaxOpsDeliver == 2  \* the same, one caller and the consumer thread running
MaxOpsDispatch == 2 \* the same, the consumer meeting failing presentations
MaxOpsGui == 3       \* events the GUI handles in one behaviour
MaxOpsTodo == 3      \* calls of the todolist's methods in one behaviour
MaxOpsStore == 3     \* calls of the store operations in one behaviour
MaxOpsFrame == 4     \* calls of scheduler and store operations in one behaviour
MaxOpsNew == 3       \* constructor calls in one behaviour, two concurrent callers
MaxRecursion == 2    \* nested recovery attempts the interpreter's recursion limit allows
MaxOpsRepo == 3      \* calls of the TaskRepository operations in one behaviour

Tasks   == {"a", "b"}                 \* task ids
DeliverTasks == {"a"}                 \* the task ids of the specifications with the consumer
Texts   == {"buy milk"}               \* task texts
StoreTexts == {"buy milk", "call bob"} \* task texts of the store's specifications
Micros  == {0, 1}                     \* the microsecond fields of a datetime
Threads == {1, 2}                     \* caller threads
SeqThreads == {1}                     \* the callers of the single-caller specification
NoTimer == 0                          \* "no entry" / "no timer"

VARIABLES
    now,        \* dt.datetime.now(), a discrete clock
    sn,         \* self.scheduled_notifications: task id -> timer (NoTimer: key absent)
    timers,     \* every threading.Timer created so far, in creation order
    nq,         \* self.notification_queue (FIFO)
    running,    \* self.running
    th,         \* caller threads: the call in progress and its position
    daemon,     \* the consumer thread: position and the event it holds; history
                \* of the delivery in progress: late (the event was taken off the
                \* queue with self.running False), chan (what the platform channel
                \* returned), reg (a UI callback was registered when the delivery
                \* began), hcalls, harg, hres (calls of the UI callback, the event
                \* passed, the outcome), modal (outcome of the message box), log
                \* (the console log was written); failed: the first event whose
                \* delivery met a failure (0: none)
    enq,        \* history: every event ever put on the queue, in put order
    delivered,  \* history: every event handed to _show_notification, in order
    ops,        \* number of calls made so far
    cfg,        \* what bounds this behaviour: the caller threads, the number of
                \* calls they may make, the task ids they use, the last clock value,
                \* whether presentations may fail
    fallback_handler,  \* self.fallback_handler: whether a UI callback is registered
    db,         \* the rows of table tasks (TaskRepository)
    tasks,      \* the tasks the latest load_all_tasks call returned (line 511
                \* binds them to todolist.tasks)
    todolist,   \* a todolist built on the repository: tasks (self.tasks, in
                \* order); history: op, arg and ret (the last call, its argument
                \* and what it returned), ok (every store call made for it so far
                \* succeeded), used (the ids seen so far)
    hist,       \* history of the store: saved (per id, the task of the last
                \* successful save_task, while its record exists), first (per id,
                \* the created_at text stored when the record came to exist),
                \* fresh (no write since the last load_all_tasks)
    gui,        \* the GUI thread: position ("mainloop": between two events), the
                \* clock value read at line 1147 (rnow), the tasks still to visit
                \* (todo), the task being completed (cur), the position of the
                \* loop of line 1443 (i); history: the clock when the tasks were
                \* loaded (loadt), and removed: per task removed through the UI
                \* its id, the number of events put before (cut) and the timers
                \* of the id whose callback had begun and not yet put (begun)
    cls,        \* the class NotificationScheduler: instance (cls._instance is set),
                \* lock (the thread holding cls._lock, 0: free), initialized (the
                \* instance has the attribute); history: instances, maps, queues,
                \* daemons (how many were created or started so far)
    repo,       \* TaskRepository: conn (self._connection is a connection, "open",
                \* or None, "closed"), pc (the position of __init__, "ready"
                \* once it has returned), file and backup (the files at db_path
                \* and at the backup path); history: closes (the close() calls
                \* made in a row, counted up to 2), orig (the file __init__ found),
                \* depth (the nested calls of _handle_database_error)
    calls       \* history: per task id, the schedule calls (s) and the cancel calls (c)
                \* made for it so far (c counts calls by callers and by shutdown);
                \* stopped: a cancel_notification call of a caller that stopped a
                \* waiting timer of the id has returned True, with no schedule call
                \* for the id in progress then or made since; cut: the number of
                \* events put before that call returned

storeVars == <<db, tasks, hist, gui, repo, todolist>>

vars == <<now, sn, timers, nq, running, th, daemon, enq, delivered, ops, cfg, calls,
          fallback_handler, storeVars, cls>>

Callers == cfg.callers
Lim == cfg.lim
Ids == cfg.ids
LastTime == cfg.maxt

\* What a presentation step may do: raise (or report failure), or not.
Failures == IF cfg.fails THEN BOOLEAN ELSE {FALSE}

\* ---------------------------------------------------------------- helpers

\* A caller thread with no call in progress and no call made yet.  pc is the
\* statement the thread is at; id, nt, text are the arguments of the call;
\* nowv, tm (timer) and keys are its local variables; ret is what the last
\* call returned.  History of the call in progress: pastdue (the fire time
\* was not after the clock when the call was made), emark and tmark (the
\* events put and the timers created before the call).
IdleThread ==
    [pc |-> "idle", op |-> "none", id |-> "a", nt |-> 0, text |-> "buy milk",
     nowv |-> 0, tm |-> NoTimer, keys |-> {}, ret |-> "none",
     pastdue |-> FALSE, emark |-> 0, tmark |-> 0, items |-> {},
     rows |-> 0, prev |-> [op |-> "none", rows |-> 0]]

\* The dictionary item the queue receives (lines 741-745); seq, src and
\* stored are history fields: position in put order, the timer that put it
\* (NoTimer for the synchronous past-due path), and the texts the table held
\* for the id when it was put.
Event(id, text, src) ==
    [task_id |-> id, task_text |-> text, timestamp |-> now,
     seq |-> Len(enq) + 1, src |-> src,
     stored |-> {r.text : r \in {x \in db : x.id = id}}]

\* Mutant of Delay: the delay is one tick short.
DelayShort(nt, nowv) == nt - nowv - 1

\* delay = (notification_time - now).total_seconds()            (line 703)
Delay(nt, nowv) == nt - nowv

\* notification_time <= now                                      (line 698)
PastDue(nt, nowv) == nt <= nowv

\* task_id in self.scheduled_notifications          (lines 692, 724, 748)
InMap(id) == sn[id] # NoTimer

\* len(self.scheduled_notifications)                             (line 850)
get_scheduled_count == Cardinality({id \in Tasks : InMap(id)})

\* Mutant of CancelledTimers: cancel() leaves a waiting timer running.
CancelledTimersNoStop(k) == timers

\* Mutant of CancelledTimers: cancel() also stops a callback in progress.
CancelledTimersAny(k) ==
    [timers EXCEPT ![k] = [@ EXCEPT !.st = "cancelled", !.started = 0, !.interval = 0]]

\* Timer.cancel(): sets the finished event; it stops the timer only while
\* the timer thread is still waiting.  A stopped timer's interval is not read
\* again, so the record forgets it.
CancelledTimers(k) ==
    [timers EXCEPT ![k] = IF @.st = "armed"
                           THEN [@ EXCEPT !.st = "cancelled", !.started = 0,
                                          !.interval = 0]
                           ELSE @]

\* A caller thread whose call has returned `result` (or raised).
Returned(result) == [IdleThread EXCEPT !.ret = result]

\* Where a call continues after the cancel_notification it made returns.
AfterCancel(t, result) ==
    CASE th[t].op = "cancel"   -> Returned(result)
      [] th[t].op = "schedule" -> [th[t] EXCEPT !.pc = "S3"]
      [] th[t].op = "shutdown" -> [th[t] EXCEPT !.pc = "H3"]

\* History: calls[id] when thread t's cancel_notification returns True.
CallsAfterCancel(t) ==
    IF /\ th[t].op = "cancel"
       /\ timers[th[t].tm].st = "cancelled"
       /\ \A u \in Callers : ~(th[u].op = "schedule" /\ th[u].id = th[t].id)
    THEN [calls[th[t].id] EXCEPT !.stopped = TRUE, !.cut = Len(enq)]
    ELSE calls[th[t].id]

\* An uncaught KeyError ends the call in progress.
Raised(t) == Returned("KeyError")

\* The consumer thread with no event in hand.
DaemonIdle ==
    [pc |-> "loop", cur |-> 0, late |-> FALSE, chan |-> "none", reg |-> FALSE,
     hcalls |-> 0, harg |-> 0, hres |-> "none", modal |-> "none", log |-> FALSE,
     failed |-> 0]

\* The history of a store in which nothing was saved.
NoHist == [saved |-> {}, first |-> {}, fresh |-> FALSE]

\* A task dictionary that stands for none.
NoTask == [id |-> "", text |-> "", notification_time |-> [some |-> FALSE, t |-> 0, us |-> 0],
           created_at |-> [some |-> FALSE, t |-> 0, us |-> 0]]

\* lines 505-511: todolist(repository) on a store without records, and no
\* call made yet.
NoList ==
    [tasks |-> << >>, op |-> "none", arg |-> [kind |-> "none", str |-> "", dict |-> NoTask],
     ret |-> [msg |-> "none", text |-> ""], ok |-> TRUE, used |-> {}]

\* The GUI thread before TodoListGUI.__init__ runs.
GuiOff ==
    [pc |-> "off", rnow |-> 0, todo |-> {}, loadt |-> 0, cur |-> NoTask, i |-> 0,
     removed |-> {}]

\* A file: none, a database (its rows are db), or other bytes, told apart by
\* a number.
Absent == [kind |-> "none", bytes |-> 0]

Database == [kind |-> "db", bytes |-> 0]

Junk(b) == [kind |-> "junk", bytes |-> b]

\* The contents of the files that are not databases.
Bytes == {1, 2}

\* TaskRepository after __init__ (lines 113-126) on a path without a file:
\* connected to a new database.
RepoReady ==
    [conn |-> "open", closes |-> 0, pc |-> "ready", file |-> Database,
     backup |-> Absent, orig |-> Absent, depth |-> 0]

\* TaskRepository and todolist are not part of the behaviour: an empty table,
\* nothing loaded.
NoStore ==
    /\ db = {}
    /\ tasks = {}
    /\ todolist = NoList
    /\ hist = NoHist
    /\ gui = GuiOff
    /\ repo = RepoReady

\* ---------------------------------------------------------------- Init

\* The class after one constructor call has returned (lines 653-671).
ClsReady ==
    [instance |-> TRUE, lock |-> 0, initialized |-> TRUE,
     instances |-> 1, maps |-> 1, queues |-> 1, daemons |-> 1]

\* The class before the first constructor call (lines 650-651).
ClsNew ==
    [instance |-> FALSE, lock |-> 0, initialized |-> FALSE,
     instances |-> 0, maps |-> 0, queues |-> 0, daemons |-> 0]

\* The scheduler's attributes as __init__ sets them (lines 660-671) and the
\* histories empty, in a behaviour bounded by c.
Attributes(c) ==
    /\ now = 0
    /\ sn = [id \in Tasks |-> NoTimer]
    /\ timers = << >>
    /\ nq = << >>
    /\ running = TRUE
    /\ th = [t \in Threads |-> IdleThread]
    /\ daemon = DaemonIdle
    /\ fallback_handler = FALSE
    /\ enq = << >>
    /\ delivered = << >>
    /\ ops = 0
    /\ cfg = c
    /\ calls = [id \in Tasks |-> [s |-> 0, c |-> 0, stopped |-> FALSE, cut |-> 0]]

\* The state after NotificationScheduler.__init__ (lines 660-671) in a
\* behaviour bounded by c.
ConstructedFor(c) == Attributes(c) /\ cls = ClsReady

\* The same for a set of caller threads, a number of calls, a set of task
\* ids, a last clock value, and presentations and statements that may fail
\* or not; the store is reached through todolist, which passes dictionaries
\* it built (lines 527-532) and drops what the store returns (lines 535,
\* 545, 578, 606).
Constructed(cs, n, is, mt, fl) ==
    ConstructedFor([callers |-> cs, lim |-> n, ids |-> is, maxt |-> mt,
                    fails |-> fl, direct |-> FALSE])

Init == Constructed(Threads, MaxOpsConc, Tasks, MaxTime, FALSE) /\ NoStore

InitSeq == Constructed(SeqThreads, MaxOps, Tasks, MaxTime, FALSE) /\ NoStore

InitInspect == Constructed(SeqThreads, MaxOps, DeliverTasks, MaxTimeLong, FALSE) /\ NoStore

\* The store called directly: any dictionary, and the caller keeps what the
\* call returned.
InitRepo ==
    /\ ConstructedFor([callers |-> SeqThreads, lim |-> MaxOpsRepo, ids |-> Tasks,
                       maxt |-> 0, fails |-> TRUE, direct |-> TRUE])
    /\ NoStore

\* One caller that uses the scheduler and the store, statements succeeding.
InitFrame ==
    /\ ConstructedFor([callers |-> SeqThreads, lim |-> MaxOpsFrame, ids |-> DeliverTasks,
                       maxt |-> MaxTime, fails |-> FALSE, direct |-> TRUE])
    /\ NoStore

\* The same with fewer calls, for the behaviours in which the clock runs.
InitText ==
    /\ ConstructedFor([callers |-> SeqThreads, lim |-> MaxOps, ids |-> DeliverTasks,
                       maxt |-> MaxTime, fails |-> FALSE, direct |-> TRUE])
    /\ NoStore

\* No constructor call has been made yet; two threads are about to make
\* them.
InitSingleton ==
    /\ Attributes([callers |-> Threads, lim |-> MaxOpsNew, ids |-> Tasks, maxt |-> 0,
                   fails |-> FALSE, direct |-> FALSE])
    /\ cls = ClsNew
    /\ NoStore

InitSeqLong == Constructed(SeqThreads, MaxOpsLong, Tasks, MaxTimeLong, FALSE) /\ NoStore

InitDeliver == Constructed(SeqThreads, MaxOpsDeliver, DeliverTasks, MaxTime, FALSE) /\ NoStore

\* The clock stands at 0: every schedule call is past due and puts its event
\* at once.
InitDispatch == Constructed(SeqThreads, MaxOpsDispatch, DeliverTasks, 0, TRUE) /\ NoStore

\* TaskRepository.__init__ (lines 113-126) on a new file: the table exists and
\* is empty (lines 146-154).  Writes may fail.
InitStore == Constructed(SeqThreads, MaxOpsStore, Tasks, MaxTime, TRUE) /\ NoStore

\* ---------------------------------------------------------------- the clock

Tick ==
    /\ now < LastTime
    /\ now' = now + 1
    /\ UNCHANGED <<sn, timers, nq, running, th, daemon, enq, delivered, ops, cfg, calls, fallback_handler, storeVars, cls>>

\* ---------------------------------------------------------------- calls

CallSchedule ==
    \E t \in Callers, id \in Ids, nt \in now..LastTime, text \in Texts :
        /\ th[t].pc = "idle"
        /\ ops < Lim
        /\ ops' = ops + 1
        /\ th' = [th EXCEPT ![t] = [IdleThread EXCEPT !.pc = "S1", !.op = "schedule",
                                        !.id = id, !.nt = nt, !.text = text,
                                        !.pastdue = PastDue(nt, now),
                                        !.emark = Len(enq), !.tmark = Len(timers)]]
        /\ calls' = [calls EXCEPT ![id].s = @ + 1, ![id].stopped = FALSE,
                                     ![id].cut = 0]
        /\ UNCHANGED <<now, sn, timers, nq, running, daemon, enq, delivered, cfg, fallback_handler, storeVars, cls>>

CallCancel ==
    \E t \in Callers, id \in Ids :
        /\ th[t].pc = "idle"
        /\ ops < Lim
        /\ ops' = ops + 1
        /\ th' = [th EXCEPT ![t] = [IdleThread EXCEPT !.pc = "K1", !.op = "cancel",
                                        !.id = id]]
        /\ calls' = [calls EXCEPT ![id].c = @ + 1]
        /\ UNCHANGED <<now, sn, timers, nq, running, daemon, enq, delivered, cfg, fallback_handler, storeVars, cls>>

\* timer.finished.wait(0) at line 863: the flag of the timer's Event, set by
\* Timer.cancel() and at the end of Timer.run(); a bool, which the
\* subtraction takes as 0 or 1.
FinishedWait(k) == IF timers[k].st \in {"cancelled", "done"} THEN 1 ELSE 0

\* lines 863-864: remaining_time = max(0, timer.interval - timer.finished.wait(0))
RemainingTime(k) ==
    IF timers[k].interval - FinishedWait(k) < 0 THEN 0
    ELSE timers[k].interval - FinishedWait(k)

\* lines 860-872: the list get_all_scheduled builds, one item per entry of
\* the map.
AllScheduled ==
    {[task_id |-> id, task_text |-> timers[sn[id]].text,
      remaining_seconds |-> RemainingTime(sn[id])] : id \in {i \in Tasks : InMap(i)}}

\* get_all_scheduled() called by a caller thread (lines 852-873).
get_all_scheduled ==
    \E t \in Callers :
        /\ th[t].pc = "idle"
        /\ ops < Lim
        /\ ops' = ops + 1
        /\ th' = [th EXCEPT ![t] = [IdleThread EXCEPT !.op = "list", !.ret = "list",
                                        !.nowv = now, !.items = AllScheduled]]
        /\ UNCHANGED <<now, sn, timers, nq, running, daemon, enq, delivered, cfg, calls, fallback_handler, storeVars, cls>>

\* Mutant of TriggerText: the text the table holds for the id, when it
\* holds one.
TriggerTextStored(id, text) ==
    IF \E r \in db : r.id = id THEN (CHOOSE r \in db : r.id = id).text ELSE text

\* lines 741-745: 'task_text' of the event is the argument _trigger_notification
\* was called with, the text given to threading.Timer at line 706 or passed
\* at line 700
TriggerText(id, text) == text

CallShutdown ==
    \E t \in Callers :
        /\ th[t].pc = "idle"
        /\ ops < Lim
        /\ ops' = ops + 1
        /\ th' = [th EXCEPT ![t] = [IdleThread EXCEPT !.pc = "H1", !.op = "shutdown",
                                        !.tmark = Len(timers)]]
        /\ UNCHANGED <<now, sn, timers, nq, running, daemon, enq, delivered, cfg, calls, fallback_handler, storeVars, cls>>

\* ---------------------------------------------------------------- schedule_notification

\* line 692: if task_id in self.scheduled_notifications: self.cancel_notification(task_id)
SchedCheck ==
    \E t \in Callers :
        /\ th[t].pc = "S1"
        /\ th' = [th EXCEPT ![t].pc = IF InMap(th[t].id) THEN "K1" ELSE "S3"]
        /\ UNCHANGED <<now, sn, timers, nq, running, daemon, enq, delivered, ops, cfg, calls, fallback_handler, storeVars, cls>>

\* lines 697-698: now = dt.datetime.now(); if notification_time <= now
SchedNow ==
    \E t \in Callers :
        /\ th[t].pc = "S3"
        /\ th' = [th EXCEPT ![t].nowv = now,
                            ![t].pc = IF PastDue(th[t].nt, now) THEN "T1" ELSE "S4"]
        /\ UNCHANGED <<now, sn, timers, nq, running, daemon, enq, delivered, ops, cfg, calls, fallback_handler, storeVars, cls>>

\* lines 703-708: delay = ...; timer = threading.Timer(delay, ...); timer.start()
SchedStart ==
    \E t \in Callers :
        /\ th[t].pc = "S4"
        /\ timers' = Append(timers, [task |-> th[t].id, text |-> th[t].text,
                                     interval |-> Delay(th[t].nt, th[t].nowv),
                                     started |-> now, fire |-> th[t].nt,
                                     st |-> "armed", left |-> FALSE])
        /\ th' = [th EXCEPT ![t].tm = Len(timers) + 1, ![t].pc = "S5"]
        /\ UNCHANGED <<now, sn, nq, running, daemon, enq, delivered, ops, cfg, calls, fallback_handler, storeVars, cls>>

\* lines 711-712: self.scheduled_notifications[task_id] = (timer, task_text); return True
SchedStore ==
    \E t \in Callers :
        /\ th[t].pc = "S5"
        /\ sn' = [sn EXCEPT ![th[t].id] = th[t].tm]
        /\ th' = [th EXCEPT ![t] = Returned("True")]
        /\ UNCHANGED <<now, timers, nq, running, daemon, enq, delivered, ops, cfg, calls, fallback_handler, storeVars, cls>>

\* line 700 -> 741-745: the past-due path calls _trigger_notification itself
SchedTriggerPut ==
    \E t \in Callers :
        /\ th[t].pc = "T1"
        /\ nq' = Append(nq, Event(th[t].id, TriggerText(th[t].id, th[t].text), NoTimer))
        /\ enq' = Append(enq, Event(th[t].id, TriggerText(th[t].id, th[t].text), NoTimer))
        /\ th' = [th EXCEPT ![t].pc = "T2"]
        /\ UNCHANGED <<now, sn, timers, running, daemon, delivered, ops, cfg, calls, fallback_handler, storeVars, cls>>

\* line 748, then 701: if task_id in self.scheduled_notifications
SchedTriggerCheck ==
    \E t \in Callers :
        /\ th[t].pc = "T2"
        /\ th' = [th EXCEPT ![t] = IF InMap(th[t].id)
                                   THEN [th[t] EXCEPT !.pc = "T3"]
                                   ELSE Returned("True")]
        /\ UNCHANGED <<now, sn, timers, nq, running, daemon, enq, delivered, ops, cfg, calls, fallback_handler, storeVars, cls>>

\* line 749, then 701: del self.scheduled_notifications[task_id]; return True
SchedTriggerDel ==
    \E t \in Callers :
        /\ th[t].pc = "T3"
        /\ IF InMap(th[t].id)
           THEN /\ sn' = [sn EXCEPT ![th[t].id] = NoTimer]
                /\ th' = [th EXCEPT ![t] = Returned("True")]
           ELSE /\ sn' = sn
                /\ th' = [th EXCEPT ![t] = Raised(t)]
        /\ UNCHANGED <<now, timers, nq, running, daemon, enq, delivered, ops, cfg, calls, fallback_handler, storeVars, cls>>

\* ---------------------------------------------------------------- cancel_notification

\* line 724 (and 729): if task_id in self.scheduled_notifications ... return False
CancelCheck ==
    \E t \in Callers :
        /\ th[t].pc = "K1"
        /\ th' = [th EXCEPT ![t] = IF InMap(th[t].id)
                                   THEN [th[t] EXCEPT !.pc = "K2"]
                                   ELSE AfterCancel(t, "False")]
        /\ UNCHANGED <<now, sn, timers, nq, running, daemon, enq, delivered, ops, cfg, calls, fallback_handler, storeVars, cls>>

\* lines 725-726: timer, task_text = self.scheduled_notifications[task_id]; timer.cancel()
CancelTimer ==
    \E t \in Callers :
        /\ th[t].pc = "K2"
        /\ IF InMap(th[t].id)
           THEN /\ timers' = CancelledTimers(sn[th[t].id])
                /\ th' = [th EXCEPT ![t].pc = "K3", ![t].tm = sn[th[t].id]]
           ELSE /\ timers' = timers
                /\ th' = [th EXCEPT ![t] = Raised(t)]
        /\ UNCHANGED <<now, sn, nq, running, daemon, enq, delivered, ops, cfg, calls, fallback_handler, storeVars, cls>>

\* lines 727-728: del self.scheduled_notifications[task_id]; return True
CancelDel ==
    \E t \in Callers :
        /\ th[t].pc = "K3"
        /\ IF InMap(th[t].id)
           THEN /\ sn' = [sn EXCEPT ![th[t].id] = NoTimer]
                /\ th' = [th EXCEPT ![t] = AfterCancel(t, "True")]
                /\ calls' = [calls EXCEPT ![th[t].id] = CallsAfterCancel(t)]
           ELSE /\ sn' = sn
                /\ th' = [th EXCEPT ![t] = Raised(t)]
                /\ calls' = calls
        /\ UNCHANGED <<now, timers, nq, running, daemon, enq, delivered, ops, cfg, fallback_handler, storeVars, cls>>

\* ---------------------------------------------------------------- constructor

\* A thread calls NotificationScheduler() (line 653).
CallNew ==
    \E t \in Callers :
        /\ th[t].pc = "idle"
        /\ ops < Lim
        /\ ops' = ops + 1
        /\ th' = [th EXCEPT ![t] = [IdleThread EXCEPT !.pc = "N1", !.op = "new"]]
        /\ UNCHANGED <<now, sn, timers, nq, running, daemon, enq, delivered, cfg, calls, fallback_handler, storeVars, cls>>

\* line 654: if cls._instance is None
NewCheck ==
    \E t \in Callers :
        /\ th[t].pc = "N1"
        /\ th' = [th EXCEPT ![t].pc = IF cls.instance THEN "I1" ELSE "N2"]
        /\ UNCHANGED <<now, sn, timers, nq, running, daemon, enq, delivered, ops, cfg, calls, fallback_handler, storeVars, cls>>

\* line 655: with cls._lock (the thread waits while another holds it)
NewLock ==
    \E t \in Callers :
        /\ th[t].pc = "N2"
        /\ cls.lock = 0
        /\ cls' = [cls EXCEPT !.lock = t]
        /\ th' = [th EXCEPT ![t].pc = "N3"]
        /\ UNCHANGED <<now, sn, timers, nq, running, daemon, enq, delivered, ops, cfg, calls, fallback_handler, storeVars>>

\* line 661: hasattr(self, 'initialized')
HasInitialized == cls.initialized

\* lines 656-658: the second test, the instance is created, the lock is
\* released, the instance is returned and __init__ is entered
NewCreate ==
    \E t \in Callers :
        /\ th[t].pc = "N3"
        /\ cls' = IF cls.instance THEN [cls EXCEPT !.lock = 0]
                  ELSE [cls EXCEPT !.lock = 0, !.instance = TRUE, !.instances = @ + 1]
        /\ th' = [th EXCEPT ![t].pc = "I1"]
        /\ UNCHANGED <<now, sn, timers, nq, running, daemon, enq, delivered, ops, cfg, calls, fallback_handler, storeVars>>

\* line 661: if not hasattr(self, 'initialized')
InitCheck ==
    \E t \in Callers :
        /\ th[t].pc = "I1"
        /\ th' = [th EXCEPT ![t] = IF HasInitialized THEN Returned("instance")
                                   ELSE [th[t] EXCEPT !.pc = "I2"]]
        /\ UNCHANGED <<now, sn, timers, nq, running, daemon, enq, delivered, ops, cfg, calls, fallback_handler, storeVars, cls>>

\* lines 663-664: the map and the queue are created
InitMapQueue ==
    \E t \in Callers :
        /\ th[t].pc = "I2"
        /\ sn' = [id \in Tasks |-> NoTimer]
        /\ nq' = << >>
        /\ cls' = [cls EXCEPT !.maps = @ + 1, !.queues = @ + 1]
        /\ th' = [th EXCEPT ![t].pc = "I3"]
        /\ UNCHANGED <<now, timers, running, daemon, enq, delivered, ops, cfg, calls, fallback_handler, storeVars>>

\* lines 665-669: fallback_handler, running, the strategy; the consumer
\* thread is created and started
InitStartDaemon ==
    \E t \in Callers :
        /\ th[t].pc = "I3"
        /\ fallback_handler' = FALSE
        /\ running' = TRUE
        /\ cls' = [cls EXCEPT !.daemons = @ + 1]
        /\ th' = [th EXCEPT ![t].pc = "I4"]
        /\ UNCHANGED <<now, sn, timers, nq, daemon, enq, delivered, ops, cfg, calls, storeVars>>

\* line 670: self.initialized = True; the constructor call returns
InitDone ==
    \E t \in Callers :
        /\ th[t].pc = "I4"
        /\ cls' = [cls EXCEPT !.initialized = TRUE]
        /\ th' = [th EXCEPT ![t] = Returned("instance")]
        /\ UNCHANGED <<now, sn, timers, nq, running, daemon, enq, delivered, ops, cfg, calls, fallback_handler, storeVars>>

\* ---------------------------------------------------------------- timer threads

\* Timer.run(): the wait of `interval` seconds is over and the timer was not
\* cancelled, so the callback _trigger_notification begins.
TimerBegin ==
    \E k \in 1..Len(timers) :
        /\ timers[k].st = "armed"
        /\ now >= timers[k].started + timers[k].interval
        /\ timers' = [timers EXCEPT ![k].st = "begun", ![k].started = 0]
        /\ UNCHANGED <<now, sn, nq, running, th, daemon, enq, delivered, ops, cfg, calls, fallback_handler, storeVars, cls>>

\* lines 741-745: self.notification_queue.put({...})
TimerPut ==
    \E k \in 1..Len(timers) :
        /\ timers[k].st = "begun"
        /\ nq' = Append(nq, Event(timers[k].task,
                                   TriggerText(timers[k].task, timers[k].text), k))
        /\ enq' = Append(enq, Event(timers[k].task,
                                     TriggerText(timers[k].task, timers[k].text), k))
        /\ timers' = [timers EXCEPT ![k].st = "put"]
        /\ UNCHANGED <<now, sn, running, th, daemon, delivered, ops, cfg, calls, fallback_handler, storeVars, cls>>

\* line 748: if task_id in self.scheduled_notifications
TimerCheck ==
    \E k \in 1..Len(timers) :
        /\ timers[k].st = "put"
        /\ timers' = [timers EXCEPT ![k].st = IF InMap(timers[k].task)
                                              THEN "checked" ELSE "done"]
        /\ UNCHANGED <<now, sn, nq, running, th, daemon, enq, delivered, ops, cfg, calls, fallback_handler, storeVars, cls>>

\* line 749: del self.scheduled_notifications[task_id]
\* (a KeyError here ends the timer thread: "died")
TimerDel ==
    \E k \in 1..Len(timers) :
        /\ timers[k].st = "checked"
        /\ IF InMap(timers[k].task)
           THEN /\ sn' = [sn EXCEPT ![timers[k].task] = NoTimer]
                /\ timers' = [timers EXCEPT ![k].st = "done"]
           ELSE /\ sn' = sn
                /\ timers' = [timers EXCEPT ![k].st = "died"]
        /\ UNCHANGED <<now, nq, running, th, daemon, enq, delivered, ops, cfg, calls, fallback_handler, storeVars, cls>>

\* ---------------------------------------------------------------- shutdown

\* line 880: self.running = False
ShutdownStop ==
    \E t \in Callers :
        /\ th[t].pc = "H1"
        /\ running' = FALSE
        /\ th' = [th EXCEPT ![t].pc = "H2"]
        /\ UNCHANGED <<now, sn, timers, nq, daemon, enq, delivered, ops, cfg, calls, fallback_handler, storeVars, cls>>

\* line 883: list(self.scheduled_notifications.keys())
ShutdownKeys ==
    \E t \in Callers :
        /\ th[t].pc = "H2"
        /\ th' = [th EXCEPT ![t].keys = {id \in Tasks : InMap(id)}, ![t].pc = "H3"]
        /\ UNCHANGED <<now, sn, timers, nq, running, daemon, enq, delivered, ops, cfg, calls, fallback_handler, storeVars, cls>>

\* lines 883-884: for task_id in ...: self.cancel_notification(task_id)
ShutdownNext ==
    \E t \in Callers :
        /\ th[t].pc = "H3"
        /\ th[t].keys # {}
        /\ \E id \in th[t].keys :
              /\ th' = [th EXCEPT ![t].id = id, ![t].keys = @ \ {id}, ![t].pc = "K1"]
              /\ calls' = [calls EXCEPT ![id].c = @ + 1]
        /\ UNCHANGED <<now, sn, timers, nq, running, daemon, enq, delivered, ops, cfg, fallback_handler, storeVars, cls>>

\* History: when the shutdown call of thread t returns, the timers created
\* before the call that are still waiting are marked `left`.
TimersAfterShutdown(t) ==
    [k \in 1..Len(timers) |->
        IF k <= th[t].tmark /\ timers[k].st = "armed"
        THEN [timers[k] EXCEPT !.left = TRUE]
        ELSE timers[k]]

\* lines 887-888: the bounded join, then return
ShutdownJoin ==
    \E t \in Callers :
        /\ th[t].pc = "H3"
        /\ th[t].keys = {}
        /\ th' = [th EXCEPT ![t] = Returned("None")]
        /\ timers' = TimersAfterShutdown(t)
        /\ UNCHANGED <<now, sn, nq, running, daemon, enq, delivered, ops, cfg, calls, fallback_handler, storeVars, cls>>

\* ---------------------------------------------------------------- _notification_daemon

\* line 756: while self.running
DaemonLoop ==
    /\ daemon.pc = "loop"
    /\ daemon' = [daemon EXCEPT !.pc = IF running THEN "get" ELSE "stopped"]
    /\ UNCHANGED <<now, sn, timers, nq, running, th, enq, delivered, ops, cfg, calls, fallback_handler, storeVars, cls>>

\* Mutant of DaemonGet: the item is read but stays on the queue.
DaemonGetKeep ==
    /\ daemon.pc = "get"
    /\ nq # << >>
    /\ daemon' = [daemon EXCEPT !.pc = "show", !.cur = Head(nq).seq, !.late = ~running]
    /\ UNCHANGED <<now, sn, timers, nq, running, th, enq, delivered, ops, cfg, calls, fallback_handler, storeVars, cls>>

\* Mutant of DaemonTake: the consumer takes the newest item.
DaemonTakeLast(q) == [item |-> q[Len(q)], rest |-> SubSeq(q, 1, Len(q) - 1)]

\* queue.Queue.get(): the oldest item, and the queue without it  (line 759)
DaemonTake(q) == [item |-> Head(q), rest |-> Tail(q)]

\* line 759: notification = self.notification_queue.get(timeout=1)
DaemonGet ==
    /\ daemon.pc = "get"
    /\ nq # << >>
    /\ daemon' = [daemon EXCEPT !.pc = "show", !.cur = DaemonTake(nq).item.seq,
                                 !.late = ~running]
    /\ nq' = DaemonTake(nq).rest
    /\ UNCHANGED <<now, sn, timers, running, th, enq, delivered, ops, cfg, calls, fallback_handler, storeVars, cls>>

\* Mutant of DaemonEmpty: a get without timeout blocks on an empty queue.
DaemonEmptyBlocks ==
    /\ daemon.pc = "get"
    /\ nq = << >>
    /\ UNCHANGED vars

\* lines 759, 762-763: the get times out on an empty queue; continue
DaemonEmpty ==
    /\ daemon.pc = "get"
    /\ nq = << >>
    /\ daemon' = [daemon EXCEPT !.pc = "loop"]
    /\ UNCHANGED <<now, sn, timers, nq, running, th, enq, delivered, ops, cfg, calls, fallback_handler, storeVars, cls>>

\* line 760: self._show_notification(notification) is invoked
DaemonShow ==
    /\ daemon.pc = "show"
    /\ delivered' = Append(delivered, daemon.cur)
    /\ daemon' = [daemon EXCEPT !.pc = "channel", !.reg = fallback_handler]
    /\ UNCHANGED <<now, sn, timers, nq, running, th, enq, ops, cfg, calls, fallback_handler, storeVars, cls>>

\* The delivery in hand met a failure: the first such event is remembered.
Failing(d) == IF d.failed = 0 THEN d.cur ELSE d.failed

\* Mutant of AfterChannel: the fallback chain runs only after a failure.
AfterChannelOnFailure(failure) == IF failure THEN "fallback" ELSE "done"

\* lines 786-792: both branches of `if success` call _fallback_notification
AfterChannel(failure) == "fallback"

\* lines 776-792: success = self.notification_strategy.show_notification(...);
\* every strategy (lines 329-476) catches its exceptions and returns a bool.
ShowChannel ==
    /\ daemon.pc = "channel"
    /\ \E failure \in Failures :
          daemon' = [daemon EXCEPT !.pc = AfterChannel(failure),
                                   !.chan = IF failure THEN "fail" ELSE "ok",
                                   !.failed = IF failure THEN Failing(daemon) ELSE @]
    /\ UNCHANGED <<now, sn, timers, nq, running, th, enq, delivered, ops, cfg, calls,
                   fallback_handler, storeVars, cls>>

\* Mutant of HandlerRaised: the exception of the UI callback ends the thread.
HandlerRaisedKills == "dead"

\* lines 808-809: an exception of the UI callback is caught and printed; the
\* method goes on to the message box.
HandlerRaised == "modal"

\* Mutant of HandlerReturned: the method goes on after the callback returned.
HandlerReturnedGoesOn == "modal"

\* lines 806-807: self.fallback_handler(notification); return
HandlerReturned == "done"

\* Mutant of NoHandler: without a callback the method returns at once.
NoHandlerReturns == "done"

\* line 804 is false: no callback is registered, on to the message box.
NoHandler == "modal"

\* lines 804-809: if self.fallback_handler: try: self.fallback_handler(notification)
FallbackHandler ==
    /\ daemon.pc = "fallback"
    /\ IF fallback_handler
       THEN \E raises \in Failures :
               daemon' = [daemon EXCEPT !.hcalls = @ + 1, !.harg = daemon.cur,
                                        !.hres = IF raises THEN "raised" ELSE "ok",
                                        !.pc = IF raises THEN HandlerRaised
                                               ELSE HandlerReturned,
                                        !.failed = IF raises THEN Failing(daemon) ELSE @]
       ELSE daemon' = [daemon EXCEPT !.pc = NoHandler]
    /\ UNCHANGED <<now, sn, timers, nq, running, th, enq, delivered, ops, cfg, calls,
                   fallback_handler, storeVars, cls>>

\* Mutant of ModalRaised: the exception of the message box ends the delivery.
ModalRaisedEnds == "done"

\* lines 836-841: an exception of the message box is caught; the method goes
\* on to the console log.
ModalRaised == "log"

\* lines 812-834: the Tk message box; any exception (no default root, no
\* display, Tk refusing the thread) leads to line 836.
FallbackModal ==
    /\ daemon.pc = "modal"
    /\ \E raises \in Failures :
          daemon' = [daemon EXCEPT !.modal = IF raises THEN "fail" ELSE "ok",
                                   !.pc = IF raises THEN ModalRaised ELSE "done",
                                   !.failed = IF raises THEN Failing(daemon) ELSE @]
    /\ UNCHANGED <<now, sn, timers, nq, running, th, enq, delivered, ops, cfg, calls,
                   fallback_handler, storeVars, cls>>

\* lines 836-841: except Exception: print the reminder to the console
FallbackLog ==
    /\ daemon.pc = "log"
    /\ daemon' = [daemon EXCEPT !.log = TRUE, !.pc = "done"]
    /\ UNCHANGED <<now, sn, timers, nq, running, th, enq, delivered, ops, cfg, calls,
                   fallback_handler, storeVars, cls>>

\* line 761: self.notification_queue.task_done(), back to the loop
DaemonTaskDone ==
    /\ daemon.pc = "done"
    /\ daemon' = [DaemonIdle EXCEPT !.failed = daemon.failed]
    /\ UNCHANGED <<now, sn, timers, nq, running, th, enq, delivered, ops, cfg, calls,
                   fallback_handler, storeVars, cls>>

\* lines 673-678: set_fallback_handler(handler); the GUI registers its
\* callback once (line 953)
set_fallback_handler ==
    /\ ~fallback_handler
    /\ fallback_handler' = TRUE
    /\ UNCHANGED <<now, sn, timers, nq, running, th, daemon, enq, delivered, ops, cfg,
                   calls, storeVars, cls>>

\* ---------------------------------------------------------------- TaskRepository

\* A Python value that is None or a datetime (t: whole ticks, us: microseconds).
PyNone == [some |-> FALSE, t |-> 0, us |-> 0]

Dt(t, us) == [some |-> TRUE, t |-> t, us |-> us]

\* The values a caller may pass as notification_time.
PyTimes == {PyNone} \cup {Dt(t, us) : t \in 0..LastTime, us \in Micros}

\* SQL NULL (and the empty string: line 241 and line 248 tell neither apart).
NULL == << >>

\* Mutant of isoformat: the microseconds are never written.
isoformatSeconds(d) == <<d.t>>

\* datetime.isoformat() (lines 200, 204, 206): the text has a fraction part
\* only when the microseconds are not zero.  A text is the sequence of its
\* fields.
isoformat(d) == IF d.us = 0 THEN <<d.t>> ELSE <<d.t, d.us>>

\* datetime.fromisoformat() (lines 243, 250): a missing fraction part reads
\* as zero microseconds.
fromisoformat(s) == Dt(s[1], IF Len(s) > 1 THEN s[2] ELSE 0)

\* lines 198-200: notification_time as bound to the INSERT
TimeCell(nt) == IF nt.some THEN isoformat(nt) ELSE NULL

\* lines 202-206: created_at as bound to the INSERT; a value that is not a
\* datetime is replaced by the current time
CreatedCell(created) ==
    IF created.some THEN isoformat(created) ELSE isoformat(Dt(now, 0))

\* Mutant of InsertOrReplace: a plain INSERT into a table without a key.
InsertOnly(rows, r) == rows \cup {r}

\* INSERT OR REPLACE on the table whose PRIMARY KEY is id (lines 147, 208-211):
\* a row with the same id is removed first.
InsertOrReplace(rows, r) == {x \in rows : x.id # r.id} \cup {r}

\* History of a successful save_task: the task saved last for the id (n: how
\* many saves the record has seen, counted up to 2), and the created_at
\* stored when the record came to exist.
SavedHist(id, text, nt, cell) ==
    [saved |-> {x \in hist.saved : x.id # id} \cup
                 {[id |-> id, text |-> text, nt |-> nt,
                   n |-> IF \E x \in hist.saved : x.id = id THEN 2 ELSE 1]},
     first |-> IF \E f \in hist.first : f.id = id
               THEN hist.first
               ELSE hist.first \cup {[id |-> id, created |-> cell]},
     fresh |-> FALSE]

\* History of a delete of the ids in `gone`.
DeletedHist(gone) ==
    [saved |-> {x \in hist.saved : x.id \notin gone},
     first |-> {f \in hist.first : f.id \notin gone},
     fresh |-> FALSE]

\* The values a caller may pass as the task: a dictionary with the key 'text'
\* or without it.
TaskShapes == IF cfg.direct THEN BOOLEAN ELSE {TRUE}

\* What a store call leaves with its caller: the call made, its id argument
\* and what it returned or raised.
Answered(op, id, result) == [IdleThread EXCEPT !.op = op, !.id = id, !.ret = result]

\* The caller threads after thread t's store call ended with result.
\* History: rows, the number of records stored when the call was made, and
\* prev, the call the thread made before this one.
Answer(t, op, id, result) ==
    IF cfg.direct
    THEN [th EXCEPT ![t] = [Answered(op, id, result) EXCEPT
                               !.rows = Cardinality(db),
                               !.prev = [op |-> th[t].op, rows |-> th[t].rows]]]
    ELSE th

\* Whether a statement may raise sqlite3.Error: it does when the path holds
\* no database with the table (construction gave up).
StoreFailures == IF repo.file.kind # "db" THEN {TRUE} ELSE Failures

\* Mutant of Connected: a connection that was given up is not made again.
ConnectedStale(failure) == {[repo EXCEPT !.closes = 0]}

\* lines 128-140: _get_connection() leaves a connection in self._connection;
\* when sqlite3.connect itself raised there is none, as before.
Connected(failure) ==
    IF failure THEN {[repo EXCEPT !.closes = 0], [repo EXCEPT !.conn = "open", !.closes = 0]}
    ELSE {[repo EXCEPT !.conn = "open", !.closes = 0]}

\* lines 182-216: save_task(task); a sqlite3.Error (line 214) returns False
\* and writes nothing; task['text'] at line 211 raises KeyError, which line
\* 214 does not catch, when the dictionary has no such key.  The caller
\* passes as created_at the current time (lines 531, 541) or nothing.
save_task ==
    \E t \in Callers, id \in Ids, text \in StoreTexts, nt \in PyTimes,
       created \in {PyNone, Dt(now, 0)}, failure \in StoreFailures, haskey \in TaskShapes :
        /\ gui.pc = "off"
        /\ repo.pc = "ready"
        /\ th[t].pc = "idle"
        /\ ops < Lim
        /\ ops' = ops + 1
        /\ repo' \in Connected(failure)
        /\ IF failure
           THEN /\ th' = Answer(t, "save_task", id, "False")
                /\ UNCHANGED <<db, hist>>
           ELSE IF ~haskey
           THEN /\ th' = Answer(t, "save_task", id, "KeyError")
                /\ UNCHANGED <<db, hist>>
           ELSE /\ th' = Answer(t, "save_task", id, "True")
                /\ db' = InsertOrReplace(db, [id |-> id, text |-> text,
                                              nt |-> TimeCell(nt),
                                              created |-> CreatedCell(created)])
                /\ hist' = SavedHist(id, text, nt, CreatedCell(created))
        /\ UNCHANGED <<now, sn, timers, nq, running, daemon, enq, delivered, cfg,
                       calls, fallback_handler, tasks, gui, cls, todolist>>

\* A cell holding a text that is not an ISO date, such as 'tomorrow':
\* fromisoformat raises ValueError on it.
Garbled == <<-1>>

\* A cell holding a value that is not a text, such as the bytes save_task
\* stores when notification_time is a bytes object (lines 198-200 convert
\* datetimes only): fromisoformat raises TypeError on it.
Blob == <<-2>>

\* lines 241-246, 248-253: the cell is parsed when it is truthy; a ValueError
\* leaves the default
Parsed(cell, default) ==
    IF cell = NULL \/ cell = Garbled THEN default ELSE fromisoformat(cell)

\* lines 231-253: the task built from one row; created_at defaults to the
\* time of the load
LoadRow(row) ==
    [id |-> row.id, text |-> row.text,
     notification_time |-> Parsed(row.nt, PyNone),
     created_at |-> Parsed(row.created, Dt(now, 0))]

\* lines 218-259: load_all_tasks()
LoadAll == {LoadRow(row) : row \in db}

\* lines 243, 250: fromisoformat raises TypeError, which neither line 245 nor
\* line 257 catches, on a cell that is not a text.
LoadRaises == \E row \in db : row.nt = Blob \/ row.created = Blob

\* line 511: self.tasks = self.repository.load_all_tasks()
load_all_tasks ==
    \E t \in Callers :
        /\ gui.pc = "off"
        /\ repo.pc = "ready"
        /\ th[t].pc = "idle"
        /\ ops < Lim
        /\ ops' = ops + 1
        /\ repo' \in Connected(FALSE)
        /\ IF LoadRaises
           THEN /\ th' = Answer(t, "load_all_tasks", IdleThread.id, "TypeError")
                /\ UNCHANGED <<tasks, hist>>
           ELSE /\ th' = Answer(t, "load_all_tasks", IdleThread.id, "list")
                /\ tasks' = LoadAll
                /\ hist' = [hist EXCEPT !.fresh = TRUE]
        /\ UNCHANGED <<now, sn, timers, nq, running, daemon, enq, delivered, cfg,
                       calls, fallback_handler, db, gui, cls, todolist>>

\* Mutant of RowCountAnswer: True whatever the statement removed.
RowCountIgnored(rows, id) == "True"

\* line 276: return cursor.rowcount > 0, for DELETE ... WHERE id = ?
RowCountAnswer(rows, id) ==
    IF Cardinality({x \in rows : x.id = id}) > 0 THEN "True" ELSE "False"

\* lines 261-279: delete_task(task_id)
delete_task ==
    \E t \in Callers, id \in Ids, failure \in StoreFailures :
        /\ gui.pc = "off"
        /\ repo.pc = "ready"
        /\ th[t].pc = "idle"
        /\ ops < Lim
        /\ ops' = ops + 1
        /\ repo' \in Connected(failure)
        /\ IF failure
           THEN /\ th' = Answer(t, "delete_task", id, "False")
                /\ UNCHANGED <<db, hist>>
           ELSE /\ th' = Answer(t, "delete_task", id, RowCountAnswer(db, id))
                /\ db' = {x \in db : x.id # id}
                /\ hist' = DeletedHist({id})
        /\ UNCHANGED <<now, sn, timers, nq, running, daemon, enq, delivered, cfg,
                       calls, fallback_handler, tasks, gui, cls, todolist>>

\* Mutant of DeleteFrom: one row survives.
DeleteFromButOne(rows) == IF rows = {} THEN {} ELSE {CHOOSE r \in rows : TRUE}

\* line 291: DELETE FROM tasks
DeleteFrom(rows) == {}

\* lines 281-296: delete_all_tasks()
delete_all_tasks ==
    \E t \in Callers, failure \in StoreFailures :
        /\ gui.pc = "off"
        /\ repo.pc = "ready"
        /\ th[t].pc = "idle"
        /\ ops < Lim
        /\ ops' = ops + 1
        /\ repo' \in Connected(failure)
        /\ IF failure
           THEN /\ th' = Answer(t, "delete_all_tasks", IdleThread.id, "False")
                /\ UNCHANGED <<db, hist>>
           ELSE /\ th' = Answer(t, "delete_all_tasks", IdleThread.id, "True")
                /\ db' = DeleteFrom(db)
                /\ hist' = DeletedHist(Tasks)
        /\ UNCHANGED <<now, sn, timers, nq, running, daemon, enq, delivered, cfg,
                       calls, fallback_handler, tasks, gui, cls, todolist>>

\* Mutant of CloseAnswer: close() without the test of line 300.
CloseUnguarded(conn) == IF conn = "closed" THEN "AttributeError" ELSE "None"

\* lines 300-302: self._connection.close() is called only on a connection
CloseAnswer(conn) == "None"

\* lines 298-302: close()
close ==
    \E t \in Callers :
        /\ gui.pc = "off"
        /\ repo.pc = "ready"
        /\ th[t].pc = "idle"
        /\ ops < Lim
        /\ ops' = ops + 1
        /\ repo' = [repo EXCEPT !.conn = "closed",
                                 !.closes = IF @ < 2 THEN @ + 1 ELSE @]
        /\ th' = Answer(t, "close", IdleThread.id, CloseAnswer(repo.conn))
        /\ UNCHANGED <<now, sn, timers, nq, running, daemon, enq, delivered, cfg,
                       calls, fallback_handler, db, tasks, hist, gui, cls, todolist>>

\* ---------------------------------------------------------------- startup of the GUI

\* The rows save_task may have written for id in an earlier run of the
\* program: a notification_time that is NULL or a whole tick.
StoredRows(id) ==
    {[id |-> id, text |-> "buy milk", nt |-> c, created |-> isoformat(Dt(0, 0))] :
        c \in {NULL} \cup {isoformat(Dt(t, 0)) : t \in 0..MaxTime}}

\* The tables the program may find at startup: at most one row per id.
StoredTables ==
    {rows \in SUBSET (UNION {StoredRows(id) : id \in Tasks}) :
        \A r1, r2 \in rows : r1.id = r2.id => r1 = r2}

\* TaskRepository.__init__ is about to call _init_database (line 126) on a
\* path that holds no file, a database of an earlier run, or a file that is
\* not a database; a backup of an earlier recovery may lie beside it.
InitConstruct ==
    /\ ConstructedFor([callers |-> SeqThreads, lim |-> MaxOps, ids |-> Tasks,
                       maxt |-> 0, fails |-> FALSE, direct |-> TRUE])
    /\ tasks = {}
    /\ todolist = NoList
    /\ hist = NoHist
    /\ gui = GuiOff
    /\ \E f \in {Absent, Database} \cup {Junk(b) : b \in Bytes},
          old \in {Absent} \cup {Junk(b) : b \in Bytes} :
           repo = [conn |-> "closed", closes |-> 0, pc |-> "init", file |-> f,
                   backup |-> old, orig |-> f, depth |-> 0]
    /\ db \in IF repo.file = Database THEN StoredTables ELSE {{}}

\* lines 142-159, first call: sqlite3.connect creates the file when there is
\* none; on a file that is not a database either the connect or the CREATE
\* TABLE raises sqlite3.Error, and _handle_database_error is called.
RepoInit ==
    /\ repo.pc = "init"
    /\ IF repo.file.kind = "junk"
       THEN /\ \E c \in {"open", "closed"} :
                  repo' = [repo EXCEPT !.pc = "recover", !.conn = c]
            /\ UNCHANGED db
       ELSE /\ repo' = [repo EXCEPT !.pc = "ready", !.conn = "open", !.file = Database]
            /\ UNCHANGED db
    /\ UNCHANGED <<now, sn, timers, nq, running, th, daemon, enq, delivered, ops, cfg,
                   calls, fallback_handler, tasks, hist, gui, cls, todolist>>

\* line 172: self.db_path.rename(backup_path) replaces an existing target on
\* POSIX and raises FileExistsError, an OSError, on Windows.
RenameOutcomes(old) == IF old = Absent THEN {"renamed"} ELSE {"renamed", "OSError"}

\* lines 163-175: the connection is closed; the file is renamed to the backup
\* path, or deleted when the rename raises OSError.
RepoBackup ==
    /\ repo.pc = "recover"
    /\ IF repo.file = Absent
       THEN repo' = [repo EXCEPT !.pc = "reinit", !.conn = "closed"]
       ELSE \E outcome \in RenameOutcomes(repo.backup) :
                repo' = [repo EXCEPT !.pc = "reinit", !.conn = "closed", !.file = Absent,
                                     !.backup = IF outcome = "renamed" THEN repo.file ELSE @]
    /\ UNCHANGED <<now, sn, timers, nq, running, th, daemon, enq, delivered, ops, cfg,
                   calls, fallback_handler, db, tasks, hist, gui, cls, todolist>>

\* Mutant of Deeper: the nested call takes no room on the stack.
DeeperNot(d) == d

\* lines 158-159, 178: each failing _init_database calls
\* _handle_database_error, which calls _init_database, one inside the other
Deeper(d) == d + 1

\* The interpreter raises RecursionError in the call that exceeds its
\* recursion limit; the handler of line 179 catches it and every call
\* returns.
AtRecursionLimit(d) == d >= MaxRecursion

\* line 178: _init_database() again, on a path without a file; the file is
\* created with its table, or sqlite3.connect or the CREATE TABLE raises
\* again (the directory is missing or cannot be written, the disk is full)
\* and line 159 calls _handle_database_error again.
RepoReinit ==
    /\ repo.pc = "reinit"
    /\ \E created \in BOOLEAN :
           IF created
           THEN /\ repo' = [repo EXCEPT !.pc = "ready", !.conn = "open",
                                         !.file = Database]
                /\ db' = {}
           ELSE /\ repo' = IF AtRecursionLimit(repo.depth)
                           THEN [repo EXCEPT !.pc = "ready", !.conn = "closed"]
                           ELSE [repo EXCEPT !.pc = "recover", !.depth = Deeper(@)]
                /\ db' = {}
    /\ UNCHANGED <<now, sn, timers, nq, running, th, daemon, enq, delivered, ops, cfg,
                   calls, fallback_handler, tasks, hist, gui, cls, todolist>>

\* The rows a table may hold for id when its cells need not be well formed.
FoundRows(id) ==
    {[id |-> id, text |-> "buy milk", nt |-> c, created |-> d] :
        c \in {NULL, isoformat(Dt(0, 0)), Garbled, Blob},
        d \in {isoformat(Dt(0, 0)), Garbled}}

\* The tables load_all_tasks may find: at most one row per id.
FoundTables ==
    {rows \in SUBSET (UNION {FoundRows(id) : id \in Tasks}) :
        \A r1, r2 \in rows : r1.id = r2.id => r1 = r2}

\* A repository constructed on a table some rows of which are malformed.
InitLoad ==
    /\ ConstructedFor([callers |-> SeqThreads, lim |-> MaxOps, ids |-> Tasks,
                       maxt |-> MaxTime, fails |-> FALSE, direct |-> TRUE])
    /\ db \in FoundTables
    /\ tasks = {}
    /\ todolist = NoList
    /\ hist = NoHist
    /\ gui = GuiOff
    /\ repo = RepoReady

\* TodoListGUI.__init__ is about to run (line 942) on a table of an earlier
\* run; the scheduler is constructed (line 952).
InitStartup ==
    /\ Constructed(SeqThreads, MaxOps, Tasks, MaxTime, FALSE)
    /\ db \in StoredTables
    /\ tasks = {}
    /\ todolist = NoList
    /\ hist = NoHist
    /\ gui = [GuiOff EXCEPT !.pc = "init"]
    /\ repo = RepoReady

\* lines 946-949 -> 511: todolist(repository) loads the tasks
GuiLoad ==
    /\ gui.pc = "init"
    /\ tasks' = LoadAll
    /\ gui' = [gui EXCEPT !.pc = "reconcile", !.loadt = now]
    /\ UNCHANGED <<now, sn, timers, nq, running, th, daemon, enq, delivered, ops, cfg,
                   calls, fallback_handler, db, hist, repo, cls, todolist>>

\* lines 619-627: get_scheduled_tasks()
get_scheduled_tasks == {x \in tasks : x.notification_time.some}

\* datetime d is after the clock value nowv
Later(d, nowv) == d.t > nowv \/ (d.t = nowv /\ d.us > 0)

\* Mutant of ToReschedule: every task with a notification_time is scheduled.
ToRescheduleAll(x, nowv) == x.notification_time.some

\* line 1156: if notification_time and task_id and notification_time > now
ToReschedule(x, nowv) ==
    x.notification_time.some /\ Later(x.notification_time, nowv)

\* lines 1146-1147: scheduled_tasks = ...get_scheduled_tasks(); now = dt.datetime.now()
ReconcileBegin ==
    /\ gui.pc = "reconcile"
    /\ gui' = [gui EXCEPT !.pc = "loop", !.todo = get_scheduled_tasks, !.rnow = now]
    /\ UNCHANGED <<now, sn, timers, nq, running, th, daemon, enq, delivered, ops, cfg,
                   calls, fallback_handler, db, tasks, hist, repo, cls, todolist>>

\* lines 1149-1162: the next task of the loop; schedule_notification is
\* called for it when line 1156 holds
ReconcileNext ==
    \E t \in Callers, x \in gui.todo :
        /\ gui.pc = "loop"
        /\ th[t].pc = "idle"
        /\ gui' = [gui EXCEPT !.todo = @ \ {x}]
        /\ IF ToReschedule(x, gui.rnow)
           THEN /\ th' = [th EXCEPT ![t] =
                            [IdleThread EXCEPT !.pc = "S1", !.op = "schedule",
                                !.id = x.id, !.nt = x.notification_time.t,
                                !.text = x.text,
                                !.pastdue = PastDue(x.notification_time.t, now),
                                !.emark = Len(enq), !.tmark = Len(timers)]]
                /\ calls' = [calls EXCEPT ![x.id].s = @ + 1, ![x.id].stopped = FALSE,
                                             ![x.id].cut = 0]
           ELSE UNCHANGED <<th, calls>>
        /\ UNCHANGED <<now, sn, timers, nq, running, daemon, enq, delivered, ops, cfg,
                       fallback_handler, db, tasks, hist, repo, cls, todolist>>

\* the loop of line 1149 is over
ReconcileEnd ==
    \E t \in Callers :
        /\ gui.pc = "loop"
        /\ gui.todo = {}
        /\ th[t].pc = "idle"
        /\ gui' = [gui EXCEPT !.pc = "done"]
        /\ UNCHANGED <<now, sn, timers, nq, running, th, daemon, enq, delivered, ops,
                       cfg, calls, fallback_handler, db, tasks, hist, repo, cls, todolist>>

\* ---------------------------------------------------------------- todolist

\* lines 527-532: the dictionary of a task
TaskDict(id, text, nt, created) ==
    [id |-> id, text |-> text, notification_time |-> nt, created_at |-> created]

\* lines 530, 540: str(uuid.uuid4()), an id that was not seen before
uuid4 == Ids \ todolist.used

\* list.remove(x), list.pop(i): the list without its element at position i
RemoveAt(l, i) == SubSeq(l, 1, i - 1) \o SubSeq(l, i + 1, Len(l))

\* An argument of a todolist call that is a string.
StrArg(x) == [kind |-> "str", str |-> x, dict |-> NoTask]

\* An argument of a todolist call that is a dictionary.
DictArg(d) == [kind |-> "dict", str |-> "", dict |-> d]

\* lines 533-536, 542-545: self.tasks.append(task); self.repository.save_task(task),
\* whose return value is dropped; lines 547-550: the message
AddTask(d, arg, nt, failure) ==
    /\ todolist' = [todolist EXCEPT !.tasks = Append(@, d), !.op = "add_task",
                                    !.arg = arg,
                                    !.ret = [msg |-> IF nt.some THEN "Scheduled task set"
                                                     ELSE "Task added.",
                                             text |-> d.text],
                                    !.ok = @ /\ ~failure,
                                    !.used = @ \cup {d.id}]
    /\ repo' \in Connected(failure)
    /\ IF failure
       THEN UNCHANGED <<db, hist>>
       ELSE /\ db' = InsertOrReplace(db, [id |-> d.id, text |-> d.text,
                                          nt |-> TimeCell(d.notification_time),
                                          created |-> CreatedCell(d.created_at)])
            /\ hist' = SavedHist(d.id, d.text, d.notification_time,
                                 CreatedCell(d.created_at))

\* lines 513-550: add_task(task, notification_time) with a string (the id is
\* new) or with a dictionary that has a text (its id is the caller's, or new
\* when it has none; created_at is set when missing)
add_task ==
    \E t \in Callers, text \in StoreTexts, nt \in PyTimes, failure \in StoreFailures :
        /\ gui.pc = "off"
        /\ repo.pc = "ready"
        /\ th[t].pc = "idle"
        /\ ops < Lim
        /\ ops' = ops + 1
        /\ \/ \E id \in uuid4 :
                 AddTask(TaskDict(id, text, nt, Dt(now, 0)), StrArg(text), nt, failure)
           \/ \E id \in Ids :
                 AddTask(TaskDict(id, text, nt, Dt(now, 0)),
                         DictArg(TaskDict(id, text, nt, Dt(now, 0))), PyNone, failure)
        /\ UNCHANGED <<now, sn, timers, nq, running, th, daemon, enq, delivered, cfg,
                       calls, fallback_handler, tasks, gui, cls>>

\* The store's part of a removal: self.repository.delete_task(id), whose
\* return value is dropped (lines 569, 580, 592).
DeleteTask(id, failure) ==
    /\ repo' \in Connected(failure)
    /\ IF failure
       THEN UNCHANGED <<db, hist>>
       ELSE /\ db' = {x \in db : x.id # id}
            /\ hist' = DeletedHist({id})

\* The position of the first task of the list whose id is x (line 565).
FirstWithId(l, x) ==
    CHOOSE i \in 1..Len(l) : l[i].id = x /\ \A j \in 1..(i - 1) : l[j].id # x

\* The position of the first task of the list equal to d (list.remove,
\* lines 566, 577).
FirstEqual(l, d) ==
    CHOOSE i \in 1..Len(l) : l[i] = d /\ \A j \in 1..(i - 1) : l[j] # d

\* lines 563-573: the tasks of the list are dictionaries, so a string is
\* compared with their ids only; line 575: a dictionary is looked up by
\* equality.  0: no task is found.
Found(l, arg) ==
    IF arg.kind = "str"
    THEN IF \E i \in 1..Len(l) : l[i].id = arg.str THEN FirstWithId(l, arg.str) ELSE 0
    ELSE IF \E i \in 1..Len(l) : l[i] = arg.dict THEN FirstEqual(l, arg.dict) ELSE 0

\* lines 552-583: remove_task(task_or_id)
RemoveTask(arg, failure) ==
    LET l == todolist.tasks
        i == Found(l, arg)
    IN  IF i = 0
        THEN /\ todolist' = [todolist EXCEPT !.op = "remove_task", !.arg = arg,
                                             !.ret = [msg |-> "Task not found.",
                                                      text |-> ""]]
             /\ UNCHANGED <<db, hist, repo>>
        ELSE /\ todolist' = [todolist EXCEPT !.tasks = RemoveAt(l, i),
                                             !.op = "remove_task", !.arg = arg,
                                             !.ret = [msg |-> "Task removed.",
                                                      text |-> l[i].text],
                                             !.ok = @ /\ ~failure]
             /\ DeleteTask(l[i].id, failure)

\* The strings and dictionaries a caller may pass to remove_task: ids, texts,
\* the tasks of the list and dictionaries that are not in it.
RemoveArgs ==
    {StrArg(x) : x \in Ids \cup StoreTexts}
        \cup {DictArg(todolist.tasks[i]) : i \in 1..Len(todolist.tasks)}
        \cup {DictArg(TaskDict(id, text, PyNone, Dt(now, 0))) :
                  id \in Ids, text \in StoreTexts}

remove_task ==
    \E t \in Callers, arg \in RemoveArgs, failure \in StoreFailures :
        /\ gui.pc = "off"
        /\ repo.pc = "ready"
        /\ th[t].pc = "idle"
        /\ ops < Lim
        /\ ops' = ops + 1
        /\ RemoveTask(arg, failure)
        /\ UNCHANGED <<now, sn, timers, nq, running, th, daemon, enq, delivered, cfg,
                       calls, fallback_handler, tasks, gui, cls>>

\* lines 585-597: remove_task_by_index(index)
remove_task_by_index ==
    \E t \in Callers, index \in (-1)..Len(todolist.tasks), failure \in StoreFailures :
        /\ gui.pc = "off"
        /\ repo.pc = "ready"
        /\ th[t].pc = "idle"
        /\ ops < Lim
        /\ ops' = ops + 1
        /\ IF 0 <= index /\ index < Len(todolist.tasks)
           THEN /\ todolist' = [todolist EXCEPT
                                   !.tasks = RemoveAt(@, index + 1),
                                   !.op = "remove_task_by_index",
                                   !.arg = StrArg(""),
                                   !.ret = [msg |-> "Task removed.",
                                            text |-> todolist.tasks[index + 1].text],
                                   !.ok = @ /\ ~failure]
                /\ DeleteTask(todolist.tasks[index + 1].id, failure)
           ELSE /\ todolist' = [todolist EXCEPT
                                   !.op = "remove_task_by_index",
                                   !.arg = StrArg(""),
                                   !.ret = [msg |-> "Invalid task index.", text |-> ""]]
                /\ UNCHANGED <<db, hist, repo>>
        /\ UNCHANGED <<now, sn, timers, nq, running, th, daemon, enq, delivered, cfg,
                       calls, fallback_handler, tasks, gui, cls>>

\* lines 599-609: self.tasks = []; self.repository.delete_all_tasks(); return True
ClearAllTasks(failure) ==
    /\ todolist' = [todolist EXCEPT !.tasks = << >>, !.op = "clear_all_tasks",
                                    !.arg = StrArg(""),
                                    !.ret = [msg |-> "True", text |-> ""],
                                    !.ok = @ /\ ~failure]
    /\ repo' \in Connected(failure)
    /\ IF failure
       THEN UNCHANGED <<db, hist>>
       ELSE /\ db' = DeleteFrom(db)
            /\ hist' = DeletedHist(Tasks)

clear_all_tasks ==
    \E t \in Callers, failure \in StoreFailures :
        /\ gui.pc = "off"
        /\ repo.pc = "ready"
        /\ th[t].pc = "idle"
        /\ ops < Lim
        /\ ops' = ops + 1
        /\ ClearAllTasks(failure)
        /\ UNCHANGED <<now, sn, timers, nq, running, th, daemon, enq, delivered, cfg,
                       calls, fallback_handler, tasks, gui, cls>>

\* A todolist on a new store, called by one thread; the store's statements
\* may fail.
InitTodo ==
    /\ ConstructedFor([callers |-> SeqThreads, lim |-> MaxOpsTodo, ids |-> Tasks,
                       maxt |-> 0, fails |-> TRUE, direct |-> FALSE])
    /\ NoStore

NextTodo ==
    \/ add_task
    \/ remove_task
    \/ remove_task_by_index
    \/ clear_all_tasks

SpecTodo == InitTodo /\ [][NextTodo]_vars

\* ---------------------------------------------------------------- the GUI's events

\* The values the date picker gives add_task_input (lines 1411-1413): none,
\* or a time that is not before the clock, in whole ticks.
PickedTimes == {PyNone} \cup {Dt(t, 0) : t \in now..LastTime}

\* History: the record of the removal of the task with this id.
Removal(id) ==
    [id |-> id, cut |-> Len(enq),
     begun |-> {k \in 1..Len(timers) : timers[k].task = id /\ timers[k].st = "begun"}]

\* lines 1407-1425: add_task_input() adds the text as a task and, when a time
\* was picked, calls schedule_notification with the new task's id
add_task_input ==
    \E t \in Callers, text \in Texts, nt \in PickedTimes, id \in uuid4,
       failure \in StoreFailures :
        /\ gui.pc = "mainloop"
        /\ th[t].pc = "idle"
        /\ ops < Lim
        /\ ops' = ops + 1
        /\ AddTask(TaskDict(id, text, nt, Dt(now, 0)), StrArg(text), nt, failure)
        /\ IF nt.some
           THEN /\ th' = [th EXCEPT ![t] =
                            [IdleThread EXCEPT !.pc = "S1", !.op = "schedule",
                                !.id = id, !.nt = nt.t, !.text = text,
                                !.pastdue = PastDue(nt.t, now),
                                !.emark = Len(enq), !.tmark = Len(timers)]]
                /\ calls' = [calls EXCEPT ![id].s = @ + 1, ![id].stopped = FALSE,
                                             ![id].cut = 0]
                /\ gui' = [gui EXCEPT !.pc = "adding"]
           ELSE /\ th' = [th EXCEPT ![t] = IdleThread]
                /\ UNCHANGED <<calls, gui>>
        /\ UNCHANGED <<now, sn, timers, nq, running, daemon, enq, delivered, cfg,
                       fallback_handler, tasks, cls>>

\* lines 1421-1435: schedule_notification has returned; the handler ends
AddEnd ==
    \E t \in Callers :
        /\ gui.pc = "adding"
        /\ th[t].pc = "idle"
        /\ th[t].ret # "KeyError"
        /\ gui' = [gui EXCEPT !.pc = "mainloop"]
        /\ UNCHANGED <<now, sn, timers, nq, running, th, daemon, enq, delivered, ops,
                       cfg, calls, fallback_handler, db, tasks, hist, repo, cls,
                       todolist>>

\* lines 1397-1401: _finalize_complete_task(task) for a task of the list
\* calls cancel_notification(task_id)
FinalizeCancel ==
    \E t \in Callers, i \in 1..Len(todolist.tasks) :
        /\ gui.pc = "mainloop"
        /\ th[t].pc = "idle"
        /\ ops < Lim
        /\ ops' = ops + 1
        /\ th' = [th EXCEPT ![t] = [IdleThread EXCEPT !.pc = "K1", !.op = "cancel",
                                        !.id = todolist.tasks[i].id]]
        /\ calls' = [calls EXCEPT ![todolist.tasks[i].id].c = @ + 1]
        /\ gui' = [gui EXCEPT !.pc = "finalize", !.cur = todolist.tasks[i]]
        /\ UNCHANGED <<now, sn, timers, nq, running, daemon, enq, delivered, cfg,
                       fallback_handler, db, tasks, hist, repo, cls, todolist>>

\* line 1403: cancel_notification has returned; self.todolist.remove_task(task)
FinalizeRemove ==
    \E t \in Callers, failure \in StoreFailures :
        /\ gui.pc = "finalize"
        /\ th[t].pc = "idle"
        /\ th[t].ret # "KeyError"
        /\ RemoveTask(DictArg(gui.cur), failure)
        /\ gui' = [gui EXCEPT !.pc = "mainloop", !.cur = NoTask,
                              !.removed = @ \cup {Removal(gui.cur.id)}]
        /\ UNCHANGED <<now, sn, timers, nq, running, th, daemon, enq, delivered, ops,
                       cfg, calls, fallback_handler, tasks, cls>>

\* lines 1437-1442: clear_all_tasks() on a list that is not empty, confirmed
\* by the user
ClearBegin ==
    \E t \in Callers :
        /\ gui.pc = "mainloop"
        /\ th[t].pc = "idle"
        /\ ops < Lim
        /\ Len(todolist.tasks) > 0
        /\ ops' = ops + 1
        /\ th' = [th EXCEPT ![t] = IdleThread]
        /\ gui' = [gui EXCEPT !.pc = "clearing", !.i = 1]
        /\ UNCHANGED <<now, sn, timers, nq, running, daemon, enq, delivered, cfg,
                       calls, fallback_handler, db, tasks, hist, repo, cls, todolist>>

\* lines 1443-1445: the next task of the loop; cancel_notification(task['id'])
ClearCancel ==
    \E t \in Callers :
        /\ gui.pc = "clearing"
        /\ th[t].pc = "idle"
        /\ th[t].ret # "KeyError"
        /\ gui.i <= Len(todolist.tasks)
        /\ th' = [th EXCEPT ![t] = [IdleThread EXCEPT !.pc = "K1", !.op = "cancel",
                                        !.id = todolist.tasks[gui.i].id]]
        /\ calls' = [calls EXCEPT ![todolist.tasks[gui.i].id].c = @ + 1]
        /\ gui' = [gui EXCEPT !.i = @ + 1]
        /\ UNCHANGED <<now, sn, timers, nq, running, daemon, enq, delivered, ops, cfg,
                       fallback_handler, db, tasks, hist, repo, cls, todolist>>

\* line 1448: the loop is over; self.todolist.clear_all_tasks()
ClearRemove ==
    \E t \in Callers, failure \in StoreFailures :
        /\ gui.pc = "clearing"
        /\ th[t].pc = "idle"
        /\ th[t].ret # "KeyError"
        /\ gui.i > Len(todolist.tasks)
        /\ ClearAllTasks(failure)
        /\ gui' = [gui EXCEPT !.pc = "mainloop", !.i = 0,
                              !.removed = @ \cup {Removal(todolist.tasks[j].id) :
                                                     j \in 1..Len(todolist.tasks)}]
        /\ UNCHANGED <<now, sn, timers, nq, running, th, daemon, enq, delivered, ops,
                       cfg, calls, fallback_handler, tasks, cls>>

\* A KeyError of the scheduler call ends the handler where it is: Tk
\* reports the exception of a callback and the event loop goes on.
HandlerRaises ==
    \E t \in Callers :
        /\ gui.pc \in {"adding", "finalize", "clearing"}
        /\ th[t].pc = "idle"
        /\ th[t].ret = "KeyError"
        /\ gui' = [gui EXCEPT !.pc = "mainloop", !.cur = NoTask, !.i = 0]
        /\ UNCHANGED <<now, sn, timers, nq, running, th, daemon, enq, delivered, ops,
                       cfg, calls, fallback_handler, db, tasks, hist, repo, cls,
                       todolist>>

\* The window is up on an empty store; the GUI thread is the only caller of
\* the scheduler and of the todolist.
InitGui ==
    /\ ConstructedFor([callers |-> SeqThreads, lim |-> MaxOpsGui, ids |-> Tasks,
                       maxt |-> MaxTime, fails |-> FALSE, direct |-> FALSE])
    /\ db = {}
    /\ tasks = {}
    /\ todolist = NoList
    /\ hist = NoHist
    /\ gui = [GuiOff EXCEPT !.pc = "mainloop"]
    /\ repo = RepoReady

\* The id of a schedule call is new, so the call finds no entry for it at
\* line 748 and the deletion of line 749 is not among its steps.
NextGui ==
    \/ Tick
    \/ add_task_input
    \/ AddEnd
    \/ FinalizeCancel
    \/ FinalizeRemove
    \/ ClearBegin
    \/ ClearCancel
    \/ ClearRemove
    \/ HandlerRaises
    \/ SchedCheck
    \/ SchedNow
    \/ SchedStart
    \/ SchedStore
    \/ SchedTriggerPut
    \/ SchedTriggerCheck
    \/ CancelCheck
    \/ CancelTimer
    \/ CancelDel
    \/ TimerBegin
    \/ TimerPut
    \/ TimerCheck
    \/ TimerDel

SpecGui == InitGui /\ [][NextGui]_vars

\* ---------------------------------------------------------------- specifications

\* Startup: the GUI thread loads the tasks and reschedules them, the clock
\* and the timer threads run.  The ids of the loaded tasks differ, so
\* schedule_notification finds no entry to cancel at line 692.
NextStartup ==
    \/ Tick
    \/ GuiLoad
    \/ ReconcileBegin
    \/ ReconcileNext
    \/ ReconcileEnd
    \/ SchedCheck
    \/ SchedNow
    \/ SchedStart
    \/ SchedStore
    \/ SchedTriggerPut
    \/ SchedTriggerCheck
    \/ TimerBegin
    \/ TimerPut
    \/ TimerCheck
    \/ TimerDel

SpecStartup == InitStartup /\ [][NextStartup]_vars

\* The store alone: the clock and the operations of TaskRepository.
NextStore ==
    \/ Tick
    \/ save_task
    \/ load_all_tasks
    \/ delete_task
    \/ delete_all_tasks

SpecStore == InitStore /\ [][NextStore]_vars

\* The repository called directly by one caller.
NextRepo ==
    \/ save_task
    \/ load_all_tasks
    \/ delete_task
    \/ delete_all_tasks
    \/ close

SpecRepo == InitRepo /\ [][NextRepo]_vars

\* Construction of the repository, then its first calls.
NextConstruct ==
    \/ RepoInit
    \/ RepoBackup
    \/ RepoReinit
    \/ save_task
    \/ load_all_tasks

SpecConstruct == InitConstruct /\ [][NextConstruct]_vars

\* The constructor runs on: the thread in __init__ is not starved.
SpecConstructFair ==
    /\ SpecConstruct
    /\ WF_vars(RepoInit)
    /\ WF_vars(RepoBackup)
    /\ WF_vars(RepoReinit)

\* Loads of a table found on disk, at any time.
NextLoad ==
    \/ Tick
    \/ load_all_tasks

SpecLoad == InitLoad /\ [][NextLoad]_vars

\* One caller that schedules reminders and calls the store, before any
\* reminder is due.
NextFrame ==
    \/ CallSchedule
    \/ SchedCheck
    \/ SchedNow
    \/ SchedStart
    \/ SchedStore
    \/ SchedTriggerPut
    \/ SchedTriggerCheck
    \/ CancelCheck
    \/ CancelTimer
    \/ CancelDel
    \/ NextRepo

SpecFrame == InitFrame /\ [][NextFrame]_vars

\* The same with the clock running and the timer threads.
NextText ==
    \/ NextFrame
    \/ Tick
    \/ TimerBegin
    \/ TimerPut
    \/ TimerCheck
    \/ TimerDel

SpecText == InitText /\ [][NextText]_vars


\* One caller and the timer threads; the consumer is not scheduled.  With one
\* caller the past-due path never finds an entry at line 748 (the entry for
\* the id was removed at lines 692-694 and only callers add entries), so
\* SchedTriggerDel is not a step of this specification.
NextSeq ==
    \/ Tick
    \/ CallSchedule
    \/ CallCancel
    \/ CallShutdown
    \/ SchedCheck
    \/ SchedNow
    \/ SchedStart
    \/ SchedStore
    \/ SchedTriggerPut
    \/ SchedTriggerCheck
    \/ CancelCheck
    \/ CancelTimer
    \/ CancelDel
    \/ TimerBegin
    \/ TimerPut
    \/ TimerCheck
    \/ TimerDel
    \/ ShutdownStop
    \/ ShutdownKeys
    \/ ShutdownNext
    \/ ShutdownJoin

SpecSeq == InitSeq /\ [][NextSeq]_vars

\* The same with one more call per behaviour and a longer clock.
SpecSeqLong == InitSeqLong /\ [][NextSeq]_vars

\* One caller that also inspects the schedule.
NextInspect ==
    \/ NextSeq
    \/ get_all_scheduled

SpecInspect == InitInspect /\ [][NextInspect]_vars

\* Two threads making constructor calls.
NextSingleton ==
    \/ CallNew
    \/ NewCheck
    \/ NewLock
    \/ NewCreate
    \/ InitCheck
    \/ InitMapQueue
    \/ InitStartDaemon
    \/ InitDone

SpecSingleton == InitSingleton /\ [][NextSingleton]_vars

\* Two concurrent callers and the timer threads; the consumer is not
\* scheduled (it reads only the queue and the running flag).
Next ==
    \/ NextSeq
    \/ SchedTriggerDel

Spec == Init /\ [][Next]_vars

\* The steps of the consumer thread, the console log apart.
NextDaemon ==
    \/ DaemonLoop
    \/ DaemonGet
    \/ DaemonEmpty
    \/ DaemonShow
    \/ ShowChannel
    \/ FallbackHandler
    \/ FallbackModal
    \/ DaemonTaskDone

\* One caller that schedules and shuts down, the timer threads and the
\* consumer; every presentation succeeds and no UI callback is registered, so
\* the console log of lines 836-841 is never written.  cancel_notification
\* runs as part of schedule_notification and shutdown.
NextDeliver ==
    \/ Tick
    \/ CallSchedule
    \/ CallShutdown
    \/ SchedCheck
    \/ SchedNow
    \/ SchedStart
    \/ SchedStore
    \/ SchedTriggerPut
    \/ SchedTriggerCheck
    \/ CancelCheck
    \/ CancelTimer
    \/ CancelDel
    \/ TimerBegin
    \/ TimerPut
    \/ TimerCheck
    \/ TimerDel
    \/ ShutdownStop
    \/ ShutdownKeys
    \/ ShutdownNext
    \/ ShutdownJoin
    \/ NextDaemon

SpecDeliver == InitDeliver /\ [][NextDeliver]_vars

\* The consumer thread is scheduled: a step of it that stays possible is
\* taken (each delivery terminates, the bounded get returns).
DaemonFair ==
    /\ WF_vars(DaemonLoop)
    /\ WF_vars(DaemonGet)
    /\ WF_vars(DaemonEmpty)
    /\ WF_vars(DaemonShow)
    /\ WF_vars(ShowChannel)
    /\ WF_vars(FallbackHandler)
    /\ WF_vars(FallbackModal)
    /\ WF_vars(FallbackLog)
    /\ WF_vars(DaemonTaskDone)

SpecDeliverFair == SpecDeliver /\ DaemonFair

\* The consumer with a UI callback that may be registered and presentations
\* that may fail: the channel reporting failure, the UI callback raising, the
\* message box raising.  One caller makes past-due schedule calls and shuts
\* down; no timer is created, so the map stays empty.
NextDispatch ==
    \/ CallSchedule
    \/ CallShutdown
    \/ SchedCheck
    \/ SchedNow
    \/ SchedTriggerPut
    \/ SchedTriggerCheck
    \/ ShutdownStop
    \/ ShutdownKeys
    \/ ShutdownJoin
    \/ NextDaemon
    \/ FallbackLog
    \/ set_fallback_handler

SpecDispatch == InitDispatch /\ [][NextDispatch]_vars

SpecDispatchFair == SpecDispatch /\ DaemonFair

\* ================================================================ properties

\* The timers created for task id.
TimersOf(id) == {k \in 1..Len(timers) : timers[k].task = id}

\* The events put on the queue so far for task id.
EventsOf(id) == {i \in 1..Len(enq) : enq[i].task_id = id}

\* A schedule_notification call for id is in progress.
InSchedule(id) ==
    \E t \in Callers : th[t].pc # "idle" /\ th[t].op = "schedule" /\ th[t].id = id

\* The callback of timer k has run to its end.
Fired(k) == timers[k].st \in {"done", "died"}

\* id was scheduled once, with a future fire time (a timer was created for
\* it), and was never cancelled or rescheduled.
ScheduledOnce(id) ==
    /\ calls[id].s = 1
    /\ calls[id].c = 0
    /\ TimersOf(id) # {}

\* C1: a task scheduled once at a future time, never cancelled or
\* rescheduled, gets exactly one event: never more than one, and one once the
\* firing has completed; get_scheduled_count() counts it from the return of
\* schedule while its timer is pending, and no longer once the firing has
\* completed.
C1_OneEventAndCount ==
    \A id \in Tasks :
        ScheduledOnce(id) =>
            /\ Cardinality(EventsOf(id)) <= 1
            /\ \A k \in TimersOf(id) :
                  /\ (~InSchedule(id) /\ timers[k].st = "armed") => InMap(id)
                  /\ (~InSchedule(id) /\ Fired(k)) =>
                        (~InMap(id) /\ Cardinality(EventsOf(id)) = 1)

\* The timers of id that are started, not cancelled and not yet fired.
ArmedOf(id) == {k \in TimersOf(id) : timers[k].st = "armed"}

\* C2: in every reachable state at most one armed (started, not cancelled,
\* not yet fired) timer exists per task id; in particular, when a new timer
\* is started for an id, every older timer of that id has been cancelled.
C2_OneArmedTimerPerId ==
    \A id \in Tasks : Cardinality(ArmedOf(id)) <= 1

\* id was scheduled exactly twice, both times with a future fire time (two
\* timers k1 < k2 were created for it), and never cancelled by a caller.
ScheduledTwice(id, k1, k2) ==
    /\ calls[id].s = 2
    /\ calls[id].c = 0
    /\ TimersOf(id) = {k1, k2}
    /\ k1 < k2

\* C3: when an id is scheduled twice with future times and the second timer
\* exists before the first timer's fire time, the first timer has been
\* stopped (it is cancelled before the second is armed); a stopped first
\* timer never puts an event, at most one event exists for the id, every
\* event of the id comes from the second timer, and once the second timer's
\* callback has completed there is exactly one.
C3_ReplaceFiresOnce ==
    \A id \in Tasks : \A k1, k2 \in TimersOf(id) :
        ScheduledTwice(id, k1, k2) =>
            /\ now < timers[k1].fire => timers[k1].st = "cancelled"
            /\ timers[k1].st = "cancelled" =>
                  /\ \A i \in EventsOf(id) : enq[i].src = k2
                  /\ Cardinality(EventsOf(id)) <= 1
                  /\ Fired(k2) => Cardinality(EventsOf(id)) = 1

\* C3 witness: the replaced timer is stopped, the second timer has fired and
\* its event is the only one of the id.
C3_Witness ==
    \E id \in Tasks : \E k1, k2 \in TimersOf(id) :
        /\ ScheduledTwice(id, k1, k2)
        /\ timers[k1].st = "cancelled"
        /\ Fired(k2)
        /\ \E i \in EventsOf(id) : enq[i].src = k2

\* C4: once cancel_notification(id) has stopped the waiting timer stored for
\* id (so before its fire time) and returned, and no schedule call for id is
\* made afterwards, no further event of id is put on the queue.
C4_NoEventAfterCancel ==
    \A id \in Tasks :
        calls[id].stopped => \A i \in EventsOf(id) : i <= calls[id].cut

\* Thread t's schedule_notification call, made with a fire time not after
\* the clock, ends (returns or raises) in this step.
PastDueCallEnds(t) ==
    /\ th[t].op = "schedule"
    /\ th[t].pastdue
    /\ th[t].pc # "idle"
    /\ th'[t].pc = "idle"

\* The events of history q that the synchronous path put for id after the
\* first n events.
SyncEventsSince(q, id, n) ==
    {i \in 1..Len(q) : i > n /\ q[i].task_id = id /\ q[i].src = NoTimer}

\* What C5 promises at the end of thread t's past-due call: it returns
\* True, exactly one event of the id was put by the call itself, no timer was
\* started, and the map has no entry for the id.
PastDueOutcome(t) ==
    /\ th'[t].ret = "True"
    /\ Cardinality(SyncEventsSince(enq', th[t].id, th[t].emark)) = 1
    /\ Len(timers') = th[t].tmark
    /\ sn'[th[t].id] = NoTimer

\* C5: a schedule_notification call made with a fire time that is not after
\* the current time puts exactly one event for the id before it returns, arms
\* no timer, and leaves no entry for the id in the map.
C5_PastDueFiresNow ==
    [][\A t \in Callers : PastDueCallEnds(t) => PastDueOutcome(t)]_vars

\* The same outcome for the past-due calls that return (no KeyError raised
\* on the way).
PastDueReturnsFireNow ==
    [][\A t \in Callers :
          (PastDueCallEnds(t) /\ th'[t].ret # "KeyError") => PastDueOutcome(t)]_vars

\* The events put by timer callbacks.
TimerEvents == {i \in 1..Len(enq) : enq[i].src # NoTimer}

\* C6: no event of an armed timer is put before the fire time given to
\* schedule_notification: its timestamp is at or after that fire time.
C6_NeverEarly ==
    \A i \in TimerEvents : enq[i].timestamp >= timers[enq[i].src].fire

\* C6 witness: a timer callback has put an event, at its fire time exactly.
C6_Witness ==
    \E i \in TimerEvents : enq[i].timestamp = timers[enq[i].src].fire

\* Caller t is between a check of the map and the update that rests on it:
\* in cancel_notification after line 724 and up to line 727, in
\* schedule_notification after line 692 and up to line 711 (or, on the
\* past-due path, up to line 749).
CallerInSection(t) ==
    \/ th[t].pc \in {"K2", "K3"}
    \/ th[t].op = "schedule" /\ th[t].pc \in {"K1", "S3", "S4", "S5", "T1", "T2", "T3"}

\* Timer k's callback is between the check at line 748 and the delete at 749.
TimerInSection(k) == timers[k].st = "checked"

\* C7: the map read-modify-writes of schedule_notification,
\* cancel_notification and _trigger_notification exclude each other: at most
\* one thread is inside such a check-then-update section at a time.
C7_MutualExclusion ==
    Cardinality({t \in Callers : CallerInSection(t)})
        + Cardinality({k \in 1..Len(timers) : TimerInSection(k)}) <= 1

\* The i-th event put on the queue has been handed to _show_notification.
Delivered(i) == \E j \in 1..Len(delivered) : delivered[j] = i

\* No event is handed to _show_notification twice, and only events that
\* were put on the queue are.
DeliveredAtMostOnce ==
    /\ \A j1, j2 \in 1..Len(delivered) : delivered[j1] = delivered[j2] => j1 = j2
    /\ \A j \in 1..Len(delivered) : delivered[j] \in 1..Len(enq)

\* C8 as claimed: every event put on the queue is delivered exactly once,
\* never twice and eventually once, whatever calls are made (shutdown
\* included).
C8_DeliveredExactlyOnce ==
    /\ []DeliveredAtMostOnce
    /\ \A i \in 1..MaxOpsDeliver : (Len(enq) >= i) ~> Delivered(i)

\* C8 amended: no event is delivered twice, and every event put on the queue
\* is eventually delivered unless shutdown() has cleared the running flag.
C8_DeliveredOnceWhileRunning ==
    /\ []DeliveredAtMostOnce
    /\ \A i \in 1..MaxOpsDeliver : (Len(enq) >= i) ~> (Delivered(i) \/ ~running)

\* C8 witness: two events were put and both were delivered, the scheduler
\* still running.
C8_Witness ==
    /\ running
    /\ Len(enq) = 2
    /\ Delivered(1)
    /\ Delivered(2)

\* C9: events reach _show_notification in the order in which they were put
\* on the queue: an event put earlier is never delivered after one put later.
C9_DeliveredInPutOrder ==
    \A j1, j2 \in 1..Len(delivered) : j1 < j2 => delivered[j1] < delivered[j2]

\* C9 witness: the second event put was delivered, after the first.
C9_Witness ==
    /\ Len(delivered) >= 2
    /\ delivered[1] = 1
    /\ delivered[2] = 2

\* Thread t's shutdown call returns in this step.
ShutdownReturns(t) ==
    /\ th[t].op = "shutdown"
    /\ th[t].pc = "H3"
    /\ th'[t].pc = "idle"

\* C10: shutdown cancels every live entry: when it returns the map is empty,
\* and a timer that was armed before the call and is still waiting when the
\* call returns never puts an event.
C10_ShutdownCancelsAll ==
    /\ [][\A t \in Callers : ShutdownReturns(t) => get_scheduled_count' = 0]_vars
    /\ [](\A i \in TimerEvents : ~timers[enq[i].src].left)

\* The consumer is inside _show_notification (line 760) or has just left it.
Dispatching == daemon.pc \in {"channel", "fallback", "modal", "log", "done"}

\* C11: once shutdown has cleared self.running the consumer starts no new
\* delivery: _show_notification is never invoked for an event that was taken
\* off the queue after the flag was cleared.
C11_NoDeliveryAfterStop == ~(Dispatching /\ daemon.late)

\* C12: for every event consumed the platform channel is tried first, and
\* then, whether it reported success or failure, the UI callback that was
\* registered is called exactly once, with that event.
C12_ChannelThenCallbackOnce ==
    /\ daemon.hcalls > 0 => daemon.chan # "none"
    /\ daemon.pc \in {"modal", "log", "done"} => daemon.chan # "none"
    /\ (daemon.pc = "done" /\ daemon.reg) =>
          /\ daemon.hcalls = 1
          /\ daemon.harg = daemon.cur

\* C12 witness: the channel reported failure and the registered callback was
\* called once with the event.
C12_Witness ==
    /\ daemon.pc = "done"
    /\ daemon.reg
    /\ daemon.chan = "fail"
    /\ daemon.hcalls = 1
    /\ daemon.harg = daemon.cur

\* C13: with no UI callback registered the dispatcher goes to the message
\* box; the console log is written only when the message box failed; and
\* when a registered callback returned without error, neither the message
\* box nor the log is attempted.
C13_FallbackChain ==
    /\ (daemon.pc \in {"log", "done"} /\ daemon.hcalls = 0) => daemon.modal # "none"
    /\ (daemon.log \/ daemon.pc = "log") => daemon.modal = "fail"
    /\ daemon.hres = "ok" => (daemon.modal = "none" /\ ~daemon.log /\ daemon.pc = "done")

\* C13 witness: no callback, the message box failed, the log was written.
C13_Witness ==
    /\ daemon.pc = "done"
    /\ daemon.hcalls = 0
    /\ daemon.modal = "fail"
    /\ daemon.log

\* C14: every event consumed gets at least one completed presentation among
\* the UI callback, the message box and the console log, also when the
\* platform channel reported failure.
C14_SomePresentation ==
    daemon.pc = "done" =>
        (daemon.hres = "ok" \/ daemon.modal = "ok" \/ daemon.log)

\* C14 witness: the channel failed, the callback raised, the message box
\* failed, and the console log completed the delivery.
C14_Witness ==
    /\ daemon.pc = "done"
    /\ daemon.chan = "fail"
    /\ daemon.hres = "raised"
    /\ daemon.modal = "fail"
    /\ daemon.log

\* C15: a failure while delivering one event never ends the consumer thread:
\* once a delivery has failed, every event put on the queue is still taken
\* and dispatched while the scheduler is running.
C15_FailureIsolated ==
    /\ [](daemon.pc # "dead")
    /\ \A i \in 1..MaxOpsDispatch :
          (daemon.failed # 0 /\ Len(enq) >= i) ~> (Delivered(i) \/ ~running)

\* C15 witness: after a delivery that failed, a later event was dispatched
\* to the end, the scheduler still running.
C15_Witness ==
    /\ running
    /\ daemon.pc = "done"
    /\ daemon.failed # 0
    /\ daemon.cur > daemon.failed

\* The table cell that holds a notification_time.
SameTime(cell, nt) == cell = (IF nt.some THEN isoformat(nt) ELSE NULL)

\* C18: the store holds at most one record per id, and the record of an id
\* whose last write was a successful save_task(t) has t's text and t's
\* notification_time: a later save replaces the record.
C18_OneRecordPerId ==
    /\ \A r1, r2 \in db : r1.id = r2.id => r1 = r2
    /\ \A t \in hist.saved :
          \E r \in db : r.id = t.id /\ r.text = t.text /\ SameTime(r.nt, t.nt)

\* C18 witness: a record was saved a second time and holds the second task.
C18_Witness ==
    \E t \in hist.saved :
        /\ t.n = 2
        /\ \E r \in db : r.id = t.id /\ r.text = t.text /\ SameTime(r.nt, t.nt)

C20_CreatedAtSetOnce ==
    \A r \in db : \A f \in hist.first :
        f.id = r.id => fromisoformat(r.created) = fromisoformat(f.created)

\* The loaded tasks whose notification_time was after the clock at load time.
FutureAtLoad ==
    {x \in tasks : x.notification_time.some /\ Later(x.notification_time, gui.loadt)}

\* Task x has an armed entry with its text and its fire time.
Rearmed(x) ==
    /\ InMap(x.id)
    /\ timers[sn[x.id]].st = "armed"
    /\ timers[sn[x.id]].text = x.text
    /\ timers[sn[x.id]].fire = x.notification_time.t

\* The reminder of task x has fired or is firing.
Firing(x) ==
    \/ EventsOf(x.id) # {}
    \/ \E k \in TimersOf(x.id) : timers[k].st # "armed"

\* C16: after startup reconciliation every loaded task whose
\* notification_time was strictly in the future at load time has an armed
\* entry under its id, with its text and that fire time (or, the fire time
\* having come since, its reminder has fired).
C16_FutureTasksRearmed ==
    gui.pc = "done" => \A x \in FutureAtLoad : Rearmed(x) \/ Firing(x)

\* C17: startup reconciliation fires no missed reminder: a loaded task whose
\* notification_time is absent or not after the load time gets no event and
\* no timer.
C17_NoMissedReminderFired ==
    \A x \in tasks \ FutureAtLoad :
        EventsOf(x.id) = {} /\ TimersOf(x.id) = {}

\* C17 witness: reconciliation is over; a task whose time had elapsed at
\* load got nothing, while a task with a future time was armed.
C17_Witness ==
    /\ gui.pc = "done"
    /\ \E x \in tasks \ FutureAtLoad :
          x.notification_time.some /\ EventsOf(x.id) = {} /\ TimersOf(x.id) = {}
    /\ \E x \in FutureAtLoad : Rearmed(x)

\* Thread t's cancel_notification call, made by a caller, ends in this step.
CancelEnds(t) ==
    /\ th[t].op = "cancel"
    /\ th[t].pc # "idle"
    /\ th'[t].pc = "idle"

\* Thread t's cancel_notification call is at its first statement.
CancelBegins(t) == th[t].op = "cancel" /\ th[t].pc = "K1"

\* C25: cancel_notification is total and idempotent: it never raises; on an
\* id with no entry it returns False and changes nothing of the scheduler;
\* when it returns True the id has no entry any more, so that a second call
\* in a row returns False and changes nothing.
C25_CancelIdempotentTotal ==
    [][\A t \in Callers :
          /\ CancelEnds(t) =>
                /\ th'[t].ret \in {"True", "False"}
                /\ th'[t].ret = "True" => sn'[th[t].id] = NoTimer
          /\ (CancelBegins(t) /\ ~InMap(th[t].id) /\ th'[t] # th[t]) =>
                /\ th'[t].ret = "False"
                /\ UNCHANGED <<sn, timers, nq, running>>]_vars

\* C30: the callback of a timer removes only the entry of its own firing:
\* when it deletes the entry of its task id at line 749, that entry holds
\* the timer itself, never a newer timer stored by schedule_notification.
C30_CallbackDeletesOwnEntry ==
    [][\A k \in 1..Len(timers) :
          (timers[k].st = "checked" /\ timers'[k].st = "done") =>
              sn[timers[k].task] = k]_vars

\* The time left until timer k fires, clamped to be non-negative.
TimeLeft(k) ==
    IF timers[k].st = "armed" /\ timers[k].started + timers[k].interval > now
    THEN timers[k].started + timers[k].interval - now
    ELSE 0

\* C28: get_all_scheduled returns exactly one item per entry of the map, with
\* the entry's task id and text and, as remaining_seconds, the time left
\* until the entry's fire time at the moment of the call, never negative.
C28_RemainingIsTimeLeft ==
    [][\A t \in Callers :
          (th'[t].op = "list" /\ th'[t] # th[t]) =>
              th'[t].items =
                  {[task_id |-> id, task_text |-> timers[sn[id]].text,
                    remaining_seconds |-> TimeLeft(sn[id])] :
                       id \in {i \in Tasks : InMap(i)}}]_vars

\* Thread t's direct call of the store operation op ends in this step.
StoreCallEnds(t, op) == ops' = ops + 1 /\ th'[t].op = op

\* C21: save_task never raises to its caller: whatever the task and the
\* state of the connection, it returns True with the record written or False
\* with the stored records unchanged.
C21_SaveNeverRaises ==
    [][\A t \in Callers :
          StoreCallEnds(t, "save_task") =>
              /\ th'[t].ret \in {"True", "False"}
              /\ th'[t].ret = "True" => \E r \in db' : r.id = th'[t].id
              /\ th'[t].ret = "False" => db' = db]_vars

\* C22: delete_task(id) returns True exactly when a record with that id
\* existed and was removed; with no such record it returns False and leaves
\* the table unchanged; records with another id are never touched.
C22_DeleteReportsRemoval ==
    [][\A t \in Callers :
          StoreCallEnds(t, "delete_task") =>
              LET id == th'[t].id
                  had == \E r \in db : r.id = id
                  has == \E r \in db' : r.id = id
              IN  /\ th'[t].ret \in {"True", "False"}
                  /\ th'[t].ret = "True" <=> (had /\ ~has)
                  /\ ~had => (th'[t].ret = "False" /\ db' = db)
                  /\ {r \in db' : r.id # id} = {r \in db : r.id # id}]_vars

\* A delete_task has removed one of two records and returned True.
C22_Witness ==
    \E t \in Callers :
        /\ th[t].op = "delete_task"
        /\ th[t].ret = "True"
        /\ Cardinality(db) = 1
        /\ \A r \in db : r.id # th[t].id
        /\ \E x \in hist.saved : x.id # th[t].id

\* C26: close() is idempotent: on a store that is closed already it raises
\* nothing and leaves the store closed, with the table as it was, so that
\* any number of close() calls in a row has the effect of one.
C26_CloseIdempotent ==
    [][\A t \in Callers :
          StoreCallEnds(t, "close") =>
              /\ th'[t].ret = "None"
              /\ repo'.conn = "closed"
              /\ db' = db
              /\ repo.conn = "closed" => UNCHANGED <<db, tasks, hist>>]_vars

\* close() has been called twice in a row on a store that holds a record.
C26_Witness ==
    /\ repo.closes = 2
    /\ repo.conn = "closed"
    /\ db # {}
    /\ \E t \in Callers : th[t].op = "close" /\ th[t].ret = "None"

\* A direct call of a store operation ends in this step.
StoreStep ==
    \E t \in Callers :
        /\ ops' = ops + 1
        /\ th'[t].op \in {"save_task", "delete_task", "delete_all_tasks",
                          "load_all_tasks", "close"}

\* C23: a load_all_tasks() that follows delete_all_tasks() returns an empty
\* list, and no store operation changes the scheduler's entry map or
\* get_scheduled_count().
C23_StoreLeavesSchedule ==
    [][/\ \A t \in Callers :
             (th[t].op = "delete_all_tasks" /\ StoreCallEnds(t, "load_all_tasks")) =>
                 tasks' = {}
       /\ StoreStep => /\ sn' = sn
                       /\ get_scheduled_count' = get_scheduled_count]_vars

\* With a reminder armed, a record has been saved and delete_all_tasks() then
\* load_all_tasks() have been called.
C23_Witness ==
    /\ get_scheduled_count = 1
    /\ db = {}
    /\ tasks = {}
    /\ \E t \in Callers :
           /\ th[t].op = "load_all_tasks"
           /\ th[t].prev.op = "delete_all_tasks"
           /\ th[t].prev.rows = 1

\* C27: the text of a notification event is the text passed to the
\* schedule_notification call that armed its timer or fired it at once,
\* whatever the store and the task list hold by then.
C27_EventTextIsScheduledText ==
    [][/\ Len(timers') = Len(timers) + 1 =>
             \E t \in Callers :
                 /\ th[t].op = "schedule"
                 /\ timers'[Len(timers')].task = th[t].id
                 /\ timers'[Len(timers')].text = th[t].text
       /\ \A k \in 1..Len(timers) : timers'[k].text = timers[k].text
       /\ Len(enq') = Len(enq) + 1 =>
             LET e == enq'[Len(enq')]
             IN  IF e.src = NoTimer
                 THEN \E t \in Callers :
                          /\ th[t].op = "schedule"
                          /\ e.task_id = th[t].id
                          /\ e.task_text = th[t].text
                 ELSE /\ e.task_id = timers[e.src].task
                      /\ e.task_text = timers[e.src].text]_vars

\* After the schedule call a save_task has stored another text for the id, and
\* the timer has then put its event.
C27_Witness ==
    \E i \in 1..Len(enq) :
        /\ enq[i].src # NoTimer
        /\ enq[i].stored # {}
        /\ enq[i].task_text \notin enq[i].stored
        /\ \E t \in Callers : th[t].op = "save_task" /\ th[t].ret = "True"

\* A cell that holds an ISO date.
WellFormed(cell) == cell \notin {NULL, Garbled, Blob}

\* C29: load_all_tasks returns one task per stored row even when cells are
\* malformed: a row whose notification_time cannot be parsed is returned
\* without a notification_time, a row whose created_at cannot be parsed is
\* returned with the time of the load as created_at, and the other rows are
\* returned as stored.
C29_MalformedFieldsDegrade ==
    [][\A t \in Callers :
          StoreCallEnds(t, "load_all_tasks") =>
              /\ th'[t].ret = "list"
              /\ tasks' =
                    {[id |-> row.id, text |-> row.text,
                      notification_time |->
                          IF WellFormed(row.nt) THEN fromisoformat(row.nt) ELSE PyNone,
                      created_at |->
                          IF WellFormed(row.created) THEN fromisoformat(row.created)
                          ELSE Dt(now, 0)] : row \in db}]_vars

\* C24: when the file at db_path cannot be opened or initialised as a
\* database, __init__ ends with a new, empty, usable database at db_path and
\* with a backup file that holds the bytes of the original file.
C24_RecoveryKeepsBackup ==
    (repo.pc = "ready" /\ repo.orig.kind = "junk") =>
        /\ repo.file = Database
        /\ repo.backup = repo.orig
        /\ ops = 0 => (db = {} /\ repo.conn = "open")

\* Timer k can still put an event: it waits, or its callback is running.
LiveTimer(k) == timers[k].st \in {"armed", "begun", "put", "checked"}

\* No caller is inside a call.
Quiescent == \A t \in Callers : th[t].pc = "idle"

\* C31: between calls, get_scheduled_count() is the number of timers that can
\* still fire, and each of them is the timer its id's entry holds; so that
\* a cancel_notification(id) that finds no entry, and returns False, leaves
\* no armed timer of id behind.
C31_CountIsArmedTimers ==
    Quiescent =>
        /\ get_scheduled_count = Cardinality({k \in 1..Len(timers) : LiveTimer(k)})
        /\ \A k \in 1..Len(timers) : LiveTimer(k) => sn[timers[k].task] = k

\* The events timer k has put.
PutBy(k) == {i \in 1..Len(enq) : enq[i].src = k}

\* The callback of timer k has returned or raised.
Ended(k) == timers[k].st \in {"done", "died"}

\* C32: a firing that has begun is not stopped by cancel_notification: it
\* puts exactly one event; and the id has no entry when the cancel call ends
\* and none when the callback ends, so none once both have finished.
C32_BegunFiringPutsOneEvent ==
    /\ [](\A k \in 1..Len(timers) :
            Cardinality(PutBy(k)) =
                IF timers[k].st \in {"put", "checked", "done", "died"} THEN 1 ELSE 0)
    /\ [][/\ \A t \in Callers : CancelEnds(t) => sn'[th[t].id] = NoTimer
          /\ \A k \in 1..Len(timers) :
                (~Ended(k) /\ Ended(k)') => sn'[timers[k].task] = NoTimer]_vars

\* A cancel call and the callback of the id's timer have overlapped and both
\* have finished: the callback passed the test of line 748 and found at line
\* 749 the entry deleted by the one cancel call made for the id.
C32_Witness ==
    \E k \in 1..Len(timers) :
        /\ timers[k].st = "died"
        /\ calls[timers[k].task].s = 1
        /\ calls[timers[k].task].c = 1
        /\ running
        /\ Quiescent
        /\ Cardinality(PutBy(k)) = 1
        /\ ~InMap(timers[k].task)

\* C33: NotificationScheduler is a singleton initialised once: whatever the
\* interleaving of constructor calls, one instance is created, the map and
\* the queue are created once, and one consumer thread is started.
C33_InitialisedOnce ==
    /\ cls.instances <= 1
    /\ cls.maps <= 1
    /\ cls.queues <= 1
    /\ cls.daemons <= 1

\* C34: once shutdown() has cleared the running flag the consumer thread
\* terminates, whether or not events arrive: it reads the flag again after
\* every delivery and after every wait on the queue that times out.
C34_ConsumerTerminates == ~running ~> daemon.pc = "stopped"

\* The consumer has terminated after shutdown() although an event is still
\* queued.
C34_Witness ==
    /\ ~running
    /\ daemon.pc = "stopped"
    /\ nq # << >>

\* C35: the construction of the store terminates: the mutual recursion of
\* _init_database and _handle_database_error makes a bounded number of
\* recovery attempts, also when the re-initialisation keeps failing.
C35_ConstructionTerminates ==
    /\ [](repo.depth <= MaxRecursion)
    /\ <>(repo.pc = "ready")

\* The re-initialisation has failed at every attempt and __init__ has
\* returned.
C35_Witness ==
    /\ repo.pc = "ready"
    /\ repo.depth = MaxRecursion
    /\ repo.file = Absent

\* C36: when the registered UI callback raises, the exception stays inside
\* the dispatcher: the delivery of the same event goes on to the message
\* box and, when that fails, to the console log.
C36_CallbackFailureFallsThrough ==
    daemon.hres = "raised" =>
        /\ daemon.pc \in {"modal", "log", "done"}
        /\ daemon.harg = daemon.cur
        /\ daemon.pc \in {"log", "done"} => daemon.modal # "none"
        /\ daemon.pc = "log" => daemon.modal = "fail"
        /\ daemon.pc = "done" =>
              (daemon.modal = "ok" \/ (daemon.modal = "fail" /\ daemon.log))

\* The callback raised and the message box then presented the event.
C36_Witness ==
    /\ daemon.hres = "raised"
    /\ daemon.modal = "ok"
    /\ daemon.pc = "done"

\* The ids of the tasks of the list.
ListIds == {todolist.tasks[i].id : i \in 1..Len(todolist.tasks)}

\* The ids of the records of the store.
StoreIds == {r.id : r \in db}

\* C37: as long as every store call made for the todolist succeeded, the
\* ids of the tasks in its list are the ids of the records in the store.
C37_ListIdsAreStoreIds == todolist.ok => ListIds = StoreIds

\* C40: remove_task called with the text of a task of the list removes a
\* task and returns the removal message.
C40_RemoveByTextRemoves ==
    [][(/\ ops' = ops + 1
        /\ todolist'.op = "remove_task"
        /\ todolist'.arg.kind = "str"
        /\ \E i \in 1..Len(todolist.tasks) :
               todolist.tasks[i].text = todolist'.arg.str)
           => /\ todolist'.ret.msg = "Task removed."
              /\ Len(todolist'.tasks) = Len(todolist.tasks) - 1]_vars

\* C39: a store call made after close() whose statements succeed reopens the
\* connection and does what it does on an open store: load_all_tasks returns
\* the records stored before the close, save_task stores its record,
\* delete_task and delete_all_tasks remove theirs.
C39_UsableAfterClose ==
    [][\A t \in Callers :
          (repo.conn = "closed" /\ ops' = ops + 1) =>
              /\ (th'[t].op = "load_all_tasks" /\ th'[t].ret = "list") =>
                     /\ repo'.conn = "open"
                     /\ db' = db
                     /\ {x.id : x \in tasks'} = {r.id : r \in db}
                     /\ \A x \in tasks' : \E r \in db : r.id = x.id /\ r.text = x.text
              /\ (th'[t].op = "save_task" /\ th'[t].ret = "True") =>
                     /\ repo'.conn = "open"
                     /\ \E r \in db' : r.id = th'[t].id
                     /\ \A r \in db : r.id # th'[t].id => r \in db'
              /\ (th'[t].op = "delete_task" /\ th'[t].ret = "True") =>
                     /\ repo'.conn = "open"
                     /\ db' = {r \in db : r.id # th'[t].id}
                     /\ db' # db
              /\ (th'[t].op = "delete_all_tasks" /\ th'[t].ret = "True") =>
                     /\ repo'.conn = "open"
                     /\ db' = {}]_vars

\* A record was stored, close() was called, and the load_all_tasks() call
\* after it returned the record over a new connection.
C39_Witness ==
    /\ repo.conn = "open"
    /\ tasks # {}
    /\ \E t \in Callers :
           /\ th[t].op = "load_all_tasks"
           /\ th[t].ret = "list"
           /\ th[t].prev.op = "close"
           /\ th[t].rows >= 1

\* C38: once a task was removed through the UI, the scheduler holds no entry
\* for its id, and every event put for the id since was put by a timer whose
\* callback had begun before the removal.
C38_RemovedTaskIsSilent ==
    \A r \in gui.removed :
        /\ ~InMap(r.id)
        /\ \A j \in (r.cut + 1)..Len(enq) :
               enq[j].task_id = r.id => enq[j].src \in r.begun

\* A task was removed while the timer of its reminder waited, and the clock
\* has reached the reminder's time since.
C38_Witness ==
    \E r \in gui.removed : \E k \in 1..Len(timers) :
        /\ timers[k].task = r.id
        /\ timers[k].st = "cancelled"
        /\ timers[k].fire <= now
        /\ gui.pc = "mainloop"

====
